---- MODULE Spec2Model ----
(***************************************************************************)
(* Model of app.py, the HE Workload Visualizer (a Streamlit script).       *)
(*                                                                         *)
(* Python strings that the code takes apart (year-month tokens, employee   *)
(* annotations) are sequences of one-character strings, so split, strip,   *)
(* int(), float() and the format specs are modelled by what they do.       *)
(* Efforts parsed from annotations are kept in half man-months (2.5 MM is   *)
(* 5); every literal of the model has a fraction of .0 or .5, for which    *)
(* the binary floating point sums of the code are exact.                   *)
(***************************************************************************)
EXTENDS Integers, Sequences, FiniteSets, TLC

VARIABLES
    pc,                    \* which part of the script run the model is in
    alloc_data,            \* st.session_state.alloc_data: sequence of rows
    cell,                  \* one (project, month) query and the three helpers' results
    loop,                  \* position of the extraction loop: row and segment
    employee_allocations,  \* the dict of the dashboard, in insertion order
    conflicts,             \* the conflicts list of the dashboard
    grid,                  \* the utilization grid: one entry per (employee, month) cell
    cal,                   \* calendar call: token, count, operation, result
    hist,                  \* the last edit action: button, rows iterated, data before
    loaded_meta,           \* the Meta frame of load_data_sources: columns and rows
    loaded_alloc,          \* the Allocations frame of load_data_sources: columns and rows
    error,                 \* the ValueError of ensure_columns that st.error shows
    session_keys,          \* the keys present in st.session_state
    meta_data,             \* st.session_state.meta_data: sequence of rows
    dept,                  \* the selected department filter
    capacity_data,         \* the capacity view: one entry per month shown
    alloc_index,           \* the index labels of st.session_state.alloc_data, row by row
    kpi                    \* the KPI counters of the dashboard header

vars == <<pc, alloc_data, cell, loop, employee_allocations, conflicts, grid, cal, hist,
          loaded_meta, loaded_alloc, error, session_keys, meta_data, dept, capacity_data,
          alloc_index, kpi>>

----------------------------------------------------------------------------
(* Python string primitives *)

Digits == <<"0", "1", "2", "3", "4", "5", "6", "7", "8", "9">>

IsDigit(c) == \E i \in 1..10 : Digits[i] = c

DigitVal(c) == (CHOOSE i \in 1..10 : Digits[i] = c) - 1

IsSpace(c) == c = " "

\* str.strip(): drop leading and trailing whitespace
RECURSIVE LStrip(_)
LStrip(s) ==
    IF s # <<>> /\ IsSpace(Head(s)) THEN LStrip(Tail(s)) ELSE s

RECURSIVE RStrip(_)
RStrip(s) ==
    IF s # <<>> /\ IsSpace(s[Len(s)]) THEN RStrip(SubSeq(s, 1, Len(s) - 1)) ELSE s

Strip(s) == RStrip(LStrip(s))

\* c in s
Contains(s, c) == \E i \in 1..Len(s) : s[i] = c

FirstIndex(s, c) == CHOOSE i \in 1..Len(s) : s[i] = c /\ \A j \in 1..(i - 1) : s[j] # c

\* s.split(c): the pieces between the occurrences of c (always at least one piece)
RECURSIVE Split(_, _)
Split(s, c) ==
    IF ~Contains(s, c) THEN <<s>>
    ELSE LET i == FirstIndex(s, c)
         IN  <<SubSeq(s, 1, i - 1)>> \o Split(SubSeq(s, i + 1, Len(s)), c)

\* value of a non-empty sequence of decimal digits
RECURSIVE DigitsVal(_)
DigitsVal(s) ==
    IF s = <<>> THEN 0
    ELSE 10 * DigitsVal(SubSeq(s, 1, Len(s) - 1)) + DigitVal(s[Len(s)])

AllDigits(s) == s # <<>> /\ \A i \in 1..Len(s) : IsDigit(s[i])

\* int(s): surrounding whitespace and one sign are accepted, then digits only;
\* anything else raises ValueError (ok = FALSE)
IntParse(s) ==
    LET t == Strip(s)
        signed == t # <<>> /\ Head(t) \in {"+", "-"}
        body == IF signed THEN Tail(t) ELSE t
    IN  IF AllDigits(body)
        THEN [ok |-> TRUE,
              val |-> IF signed /\ Head(t) = "-" THEN 0 - DigitsVal(body) ELSE DigitsVal(body)]
        ELSE [ok |-> FALSE, val |-> 0]

\* decimal digits of n >= 0, without padding
RECURSIVE NatStr(_)
NatStr(n) ==
    IF n < 10 THEN <<Digits[n + 1]>> ELSE NatStr(n \div 10) \o <<Digits[(n % 10) + 1]>>

RECURSIVE ZeroPad(_, _)
ZeroPad(s, w) == IF Len(s) >= w THEN s ELSE ZeroPad(<<"0">> \o s, w)

\* f"{n:0wd}": at least w characters, the sign counted in the width
Fmt(n, w) ==
    IF n >= 0 THEN ZeroPad(NatStr(n), w)
    ELSE <<"-">> \o ZeroPad(NatStr(0 - n), w - 1)

\* y, m = map(int, s.split("-")): exactly two pieces, both integers
ParseYM(s) ==
    LET parts == Split(s, "-")
    IN  IF Len(parts) = 2 /\ IntParse(parts[1]).ok /\ IntParse(parts[2]).ok
        THEN [ok |-> TRUE, y |-> IntParse(parts[1]).val, m |-> IntParse(parts[2]).val]
        ELSE [ok |-> FALSE, y |-> 0, m |-> 0]

\* f"{y:04d}-{m:02d}"
FmtYM(y, m) == Fmt(y, 4) \o <<"-">> \o Fmt(m, 2)

----------------------------------------------------------------------------
(* Calendar *)

\* yms with the year taken from the unreduced month count (no "- 1")
yms_no_rebase(start_ym, n) ==
    LET p == ParseYM(start_ym)
    IN  IF ~p.ok THEN [err |-> TRUE, out |-> <<>>]
        ELSE [err |-> FALSE,
              out |-> [k \in 1..n |->
                         LET i == k - 1
                             yy == p.y + ((p.m + i) \div 12)
                             mm == ((p.m - 1 + i) % 12) + 1
                         IN  FmtYM(yy, mm)]]

\* yms(start_ym, n): err when the unpacking of the start token raises
yms(start_ym, n) ==
    LET p == ParseYM(start_ym)
    IN  IF ~p.ok THEN [err |-> TRUE, out |-> <<>>]
        ELSE [err |-> FALSE,
              out |-> [k \in 1..n |->
                         LET i == k - 1
                             yy == p.y + ((p.m - 1 + i) \div 12)
                             mm == ((p.m - 1 + i) % 12) + 1
                         IN  FmtYM(yy, mm)]]

\* the +1 shift without the year increment on wrapping
shift_plus_keeps_year(old_date) ==
    LET p == ParseYM(old_date)
        new_m == p.m + 1
    IN  IF ~p.ok THEN [err |-> TRUE, new_date |-> old_date]
        ELSE [err |-> FALSE,
              new_date |-> IF new_m > 12 THEN FmtYM(p.y, 1) ELSE FmtYM(p.y, new_m)]

\* the try body of "Shift Selected +1 Month", up to new_date
shift_plus(old_date) ==
    LET p == ParseYM(old_date)
        new_m == p.m + 1
    IN  IF ~p.ok THEN [err |-> TRUE, new_date |-> old_date]
        ELSE [err |-> FALSE,
              new_date |-> IF new_m > 12 THEN FmtYM(p.y + 1, 1) ELSE FmtYM(p.y, new_m)]

\* the -1 shift without the year decrement on wrapping
shift_minus_keeps_year(old_date) ==
    LET p == ParseYM(old_date)
        new_m == p.m - 1
    IN  IF ~p.ok THEN [err |-> TRUE, new_date |-> old_date]
        ELSE [err |-> FALSE,
              new_date |-> IF new_m < 1 THEN FmtYM(p.y, 12) ELSE FmtYM(p.y, new_m)]

\* the try body of "Shift Selected -1 Month", up to new_date
shift_minus(old_date) ==
    LET p == ParseYM(old_date)
        new_m == p.m - 1
    IN  IF ~p.ok THEN [err |-> TRUE, new_date |-> old_date]
        ELSE [err |-> FALSE,
              new_date |-> IF new_m < 1 THEN FmtYM(p.y - 1, 12) ELSE FmtYM(p.y, new_m)]

----------------------------------------------------------------------------
(* Allocation index: the helpers that answer one (project, month) cell.      *)
(* A row is [Project, Date, Phase, MM, Employees]; a missing cell of the     *)
(* frame (NaN) is the value NaN for Phase and NaNText for Employees.         *)

NaN == "NaN"
NaNText == <<"NaN">>
None == "None"

PHASES == {"Planning", "Design", "Development", "Testing", "Delivery"}

\* str(x) of a Phase cell
StrPhase(ph) == IF ph = NaN THEN "nan" ELSE ph

\* str(x) of an Employees cell
StrText(e) == IF e = NaNText THEN <<"n", "a", "n">> ELSE e

RECURSIVE SumOver(_, _)
\* sum of f[i] over the finite set S of indices
SumOver(f, S) ==
    IF S = {} THEN 0
    ELSE LET i == CHOOSE j \in S : TRUE IN f[i] + SumOver(f, S \ {i})

\* the row filter with the month left out: every row of the project
MatchingRowsAnyMonth(df_alloc, project, ym) ==
    {i \in 1..Len(df_alloc) : df_alloc[i].Project = project}

\* df_alloc[(df_alloc["Project"] == project) & (df_alloc["Date"] == ym)], as row positions
MatchingRows(df_alloc, project, ym) ==
    {i \in 1..Len(df_alloc) : df_alloc[i].Project = project /\ df_alloc[i].Date = ym}

\* the keys of rows.groupby("Phase"): rows with a missing Phase belong to no group
PhaseGroups(df_alloc, rows) == {df_alloc[i].Phase : i \in rows} \ {NaN}

GroupRows(df_alloc, rows, ph) == {i \in rows : df_alloc[i].Phase = ph}

\* ["MM"].sum() of one group
GroupMM(df_alloc, rows, ph) ==
    SumOver([i \in 1..Len(df_alloc) |-> df_alloc[i].MM], GroupRows(df_alloc, rows, ph))

\* "first" of the Employees of one group: the first value that is not missing
GroupFirstEmployees(df_alloc, rows, ph) ==
    LET having == {i \in GroupRows(df_alloc, rows, ph) : df_alloc[i].Employees # NaNText}
    IN  IF having = {} THEN NaNText
        ELSE df_alloc[CHOOSE i \in having : \A j \in having : i <= j].Employees

\* the groups that sort_values("MM", ascending=False) may put first: the order
\* among equal sums is not fixed by the sort
TopGroups(df_alloc, rows) ==
    {ph \in PhaseGroups(df_alloc, rows) :
        \A other \in PhaseGroups(df_alloc, rows) :
            GroupMM(df_alloc, rows, other) <= GroupMM(df_alloc, rows, ph)}

\* month_phase: the possible results (the Phase of a row with the biggest MM)
month_phase(df_alloc, project, ym) ==
    LET rows == MatchingRows(df_alloc, project, ym)
    IN  IF rows = {} THEN {None}
        ELSE {StrPhase(df_alloc[i].Phase) :
                 i \in {k \in rows : \A j \in rows : df_alloc[j].MM <= df_alloc[k].MM}}

\* month_mm_and_phase with the MM of the whole month instead of the top group's
month_mm_and_phase_month_total(df_alloc, project, ym) ==
    LET rows == MatchingRows(df_alloc, project, ym)
    IN  IF rows = {} THEN {[err |-> FALSE, mm |-> 0, phase |-> None]}
        ELSE IF PhaseGroups(df_alloc, rows) = {} THEN {[err |-> TRUE, mm |-> 0, phase |-> None]}
        ELSE {[err |-> FALSE,
               mm |-> SumOver([i \in 1..Len(df_alloc) |-> df_alloc[i].MM], rows),
               phase |-> ph] : ph \in TopGroups(df_alloc, rows)}

\* month_mm_and_phase: the possible results; err is the IndexError of grp.index[0]
\* on an empty grouping
month_mm_and_phase(df_alloc, project, ym) ==
    LET rows == MatchingRows(df_alloc, project, ym)
    IN  IF rows = {} THEN {[err |-> FALSE, mm |-> 0, phase |-> None]}
        ELSE IF PhaseGroups(df_alloc, rows) = {} THEN {[err |-> TRUE, mm |-> 0, phase |-> None]}
        ELSE {[err |-> FALSE, mm |-> GroupMM(df_alloc, rows, ph), phase |-> ph] :
                 ph \in TopGroups(df_alloc, rows)}

\* month_mm_phase_employees: the possible results
month_mm_phase_employees(df_alloc, project, ym) ==
    LET rows == MatchingRows(df_alloc, project, ym)
    IN  IF rows = {} THEN {[err |-> FALSE, mm |-> 0, phase |-> None, employees |-> <<>>]}
        ELSE IF PhaseGroups(df_alloc, rows) = {}
             THEN {[err |-> TRUE, mm |-> 0, phase |-> None, employees |-> <<>>]}
        ELSE {[err |-> FALSE, mm |-> GroupMM(df_alloc, rows, ph), phase |-> ph,
               employees |-> StrText(GroupFirstEmployees(df_alloc, rows, ph))] :
                 ph \in TopGroups(df_alloc, rows)}

----------------------------------------------------------------------------
(* Dashboard: employee loads, conflicts, utilization grid.                   *)
(* Efforts are in half man-months: FullTimeMM2 is the 4.0 MM of the code,    *)
(* percents are in half percents (pct2 = 2 * pct).                           *)

FullTimeMM2 == 8

GridMonths == 12

RECURSIVE Pow10(_)
Pow10(n) == IF n = 0 THEN 1 ELSE 10 * Pow10(n - 1)

\* the float that is not a number, as a value no effort of the model takes: it
\* equals nothing it is compared with, and every sum it enters is a NaN again
FloatNaN == -1000000

\* float("nan"), in any case
IsNanLiteral(body) ==
    /\ Len(body) = 3
    /\ body[1] \in {"n", "N"} /\ body[2] \in {"a", "A"} /\ body[3] \in {"n", "N"}

\* a + b on floats
FloatAdd(a, b) == IF a = FloatNaN \/ b = FloatNaN THEN FloatNaN ELSE a + b

\* float(s) for decimal literals and for "nan": surrounding whitespace and one sign
\* are accepted, then digits with at most one point and at least one digit, or the
\* letters nan; anything else raises ValueError (ok = FALSE). val2 is twice the value.
FloatParse(s) ==
    LET t == Strip(s)
        signed == t # <<>> /\ Head(t) \in {"+", "-"}
        body == IF signed THEN Tail(t) ELSE t
        parts == Split(body, ".")
        whole == parts[1]
        frac == IF Len(parts) = 2 THEN parts[2] ELSE <<>>
        wellformed ==
            /\ Len(parts) <= 2
            /\ \A i \in 1..Len(whole) : IsDigit(whole[i])
            /\ \A i \in 1..Len(frac) : IsDigit(frac[i])
            /\ Len(whole) + Len(frac) > 0
        magnitude == 2 * DigitsVal(whole) + ((2 * DigitsVal(frac)) \div Pow10(Len(frac)))
    IN  IF IsNanLiteral(body)
        THEN [ok |-> TRUE, val2 |-> FloatNaN]
        ELSE IF wellformed
        THEN [ok |-> TRUE, val2 |-> IF signed /\ Head(t) = "-" THEN 0 - magnitude ELSE magnitude]
        ELSE [ok |-> FALSE, val2 |-> 0]

\* pd.notna(row.get('Employees', '')) and row['Employees']
HasAnnotation(row) == row.Employees # NaNText /\ row.Employees # <<>>

\* emp_parts = [e.strip() for e in str(row['Employees']).split(',')]
EmpParts(row) ==
    LET pieces == Split(StrText(row.Employees), ",")
    IN  [j \in 1..Len(pieces) |-> Strip(pieces[j])]

\* if '(' in emp_part and ')' in emp_part
HasParens(emp_part) == Contains(emp_part, "(") /\ Contains(emp_part, ")")

\* the name taken without .strip()
EmpNameUnstripped(emp_part) == Split(emp_part, "(")[1]

\* name = emp_part.split('(')[0].strip()
EmpName(emp_part) == Strip(Split(emp_part, "(")[1])

\* mm = float(emp_part.split('(')[1].split(')')[0])
ParsedMM(emp_part) == FloatParse(Split(Split(emp_part, "(")[2], ")")[1])

KeyIndex(allocs, key) ==
    IF \E i \in 1..Len(allocs) : allocs[i].key = key
    THEN CHOOSE i \in 1..Len(allocs) : allocs[i].key = key
    ELSE 0

\* the accumulation with the load filed under the name alone
AccumulateByNameOnly(allocs, name, date, project, mm2) ==
    LET key == <<name, date>>
        hit == IF \E i \in 1..Len(allocs) : allocs[i].key[1] = name
               THEN CHOOSE i \in 1..Len(allocs) : allocs[i].key[1] = name
               ELSE 0
    IN  IF hit = 0
        THEN Append(allocs, [key |-> key, total_mm |-> mm2, projects |-> <<<<project, mm2>>>>])
        ELSE [allocs EXCEPT ![hit].total_mm = @ + mm2,
                            ![hit].projects = Append(@, <<project, mm2>>)]

\* the accumulation that creates the entry of a new key and leaves it at that
AccumulateCreatingEmpty(allocs, name, date, project, mm2) ==
    LET key == <<name, date>>
        k == KeyIndex(allocs, key)
    IN  IF k = 0
        THEN Append(allocs, [key |-> key, total_mm |-> 0, projects |-> <<>>])
        ELSE [allocs EXCEPT ![k].total_mm = FloatAdd(@, mm2),
                            ![k].projects = Append(@, <<project, mm2>>)]

\* key = (name, row['Date']); create the entry if the key is new; add mm to total_mm;
\* append (row['Project'], mm) to projects
Accumulate(allocs, name, date, project, mm2) ==
    LET key == <<name, date>>
        withKey == IF KeyIndex(allocs, key) = 0
                   THEN Append(allocs, [key |-> key, total_mm |-> 0, projects |-> <<>>])
                   ELSE allocs
        k == KeyIndex(withKey, key)
    IN  [withKey EXCEPT ![k].total_mm = FloatAdd(@, mm2),
                        ![k].projects = Append(@, <<project, mm2>>)]

\* (data['total_mm'] / 4.0) * 100, in half percents
Percent2(mm2) == IF mm2 = FloatNaN THEN FloatNaN ELSE (mm2 * 100 * 2) \div FullTimeMM2

\* the conflict test with >= in place of >
IsConflictInclusive(mm2) == mm2 >= FullTimeMM2

\* if data['total_mm'] > 4.0: False for a NaN
IsConflict(mm2) == mm2 # FloatNaN /\ mm2 > FullTimeMM2

\* the conflicts list walked from the last entry of the mapping to the first
DetectedConflictsReversed(allocs) ==
    LET Entry(i) == [employee |-> allocs[i].key[1], month |-> allocs[i].key[2],
                     total_mm |-> allocs[i].total_mm,
                     percent2 |-> Percent2(allocs[i].total_mm),
                     projects |-> allocs[i].projects]
        over == SelectSeq([i \in 1..Len(allocs) |-> Len(allocs) + 1 - i],
                          LAMBDA i : IsConflict(allocs[i].total_mm))
    IN  [k \in 1..Len(over) |-> Entry(over[k])]

\* the conflicts list: one dict per entry over 4.0, in the order of the mapping
DetectedConflicts(allocs) ==
    LET Entry(i) == [employee |-> allocs[i].key[1], month |-> allocs[i].key[2],
                     total_mm |-> allocs[i].total_mm,
                     percent2 |-> Percent2(allocs[i].total_mm),
                     projects |-> allocs[i].projects]
        over == SelectSeq([i \in 1..Len(allocs) |-> i], LAMBDA i : IsConflict(allocs[i].total_mm))
    IN  [k \in 1..Len(over) |-> Entry(over[k])]

\* the banding with 100% counted as over
CellClassOverAtFull(pct2) ==
    IF pct2 = 0 THEN ""
    ELSE IF pct2 < 100 THEN "low"
    ELSE IF pct2 < 150 THEN "medium"
    ELSE IF pct2 < 200 THEN "high"
    ELSE "over"

\* cell_class of the utilization grid for a percent (thresholds 50, 75, 100); every
\* comparison with a NaN is False, which leaves the else branch
CellClass(pct2) ==
    IF pct2 = FloatNaN THEN "over"
    ELSE IF pct2 = 0 THEN ""
    ELSE IF pct2 < 100 THEN "low"
    ELSE IF pct2 < 150 THEN "medium"
    ELSE IF pct2 <= 200 THEN "high"
    ELSE "over"

\* all_employees: the name of every segment that holds a '('
AllEmployees(alloc) ==
    UNION { {EmpName(EmpParts(alloc[i])[j]) :
                j \in {k \in 1..Len(EmpParts(alloc[i])) : Contains(EmpParts(alloc[i])[k], "(")}} :
            i \in {r \in 1..Len(alloc) : HasAnnotation(alloc[r])} }

\* month_mm of one grid cell: the total of the entry of (employee, month), else 0
CellMM(allocs, employee, month) ==
    IF KeyIndex(allocs, <<employee, month>>) = 0 THEN 0
    ELSE allocs[KeyIndex(allocs, <<employee, month>>)].total_mm

\* projects of one grid cell: the first two project names of the entry
CellProjects(allocs, employee, month) ==
    IF KeyIndex(allocs, <<employee, month>>) = 0 THEN <<>>
    ELSE LET ps == allocs[KeyIndex(allocs, <<employee, month>>)].projects
         IN  [k \in 1..(IF Len(ps) < 2 THEN Len(ps) ELSE 2) |-> ps[k][1]]

----------------------------------------------------------------------------
(* Editor: the bulk shift buttons.                                           *)

\* new_date of the button pressed: +1 or -1 month
NewDate(old_date, delta) ==
    IF delta = 1 THEN shift_plus(old_date) ELSE shift_minus(old_date)

\* the rows the editor shows: filtered_alloc under the three filters, as the index
\* labels of alloc_data in their order; "All" and the empty text filter nothing
FilteredIndex(data, filter_project, filter_phase, filter_date) ==
    SelectSeq([i \in 1..Len(data) |-> i],
              LAMBDA i : /\ filter_project # "All" => data[i].Project = filter_project
                         /\ filter_phase # "All" => data[i].Phase = filter_phase
                         /\ filter_date # <<>> => data[i].Date = filter_date)

\* mask = (Project == row Project) & (Date == old_date) & (Phase == row Phase) on the
\* session data as it is now; a missing Phase equals nothing
ShiftMask(data, i, edited_row) ==
    /\ data[i].Project = edited_row.Project
    /\ data[i].Date = edited_row.Date
    /\ edited_row.Phase # NaN /\ data[i].Phase = edited_row.Phase

RECURSIVE ShiftLoop(_, _, _, _)
\* for idx in edited_alloc.index: try the shift of the row's Date and write new_date
\* to every record the mask selects; a row whose Date raises is passed over
ShiftLoop(data, edited_alloc, index, delta) ==
    IF index = <<>> THEN data
    ELSE LET idx == Head(index)
             old_date == edited_alloc[idx].Date
             r == NewDate(old_date, delta)
             written == [i \in 1..Len(data) |->
                            IF ShiftMask(data, i, edited_alloc[idx])
                            THEN [data[i] EXCEPT !.Date = r.new_date]
                            ELSE data[i]]
         IN  ShiftLoop(IF r.err THEN data ELSE written, edited_alloc, Tail(index), delta)

----------------------------------------------------------------------------
(* Calendar calls on their own: the start token and the count are the text   *)
(* input and the slider of the sidebar, the shifted token is a row's Date.   *)

MaxCount == 3
MaxCalOps == 2

CalYears == {0, 2025, 9999}

ValidTokens == {FmtYM(y, m) : y \in CalYears, m \in 1..12}

MalformedTokens ==
    { <<"2", "0", "2", "5">>,
      <<"2", "0", "x", "5", "-", "0", "1">>,
      <<"2", "0", "2", "5", "-", "0", "1", "-", "0", "5">>,
      <<"2", "0", "2", "5", "-", "1", "3">>,
      <<"2", "0", "2", "5", "-", "0", "0">>,
      <<"2", "0", "2", "5", "-", "1">> }

NoCal == [tok |-> <<>>, n |-> 0, op |-> "none", prev |-> <<>>, out |-> <<>>,
          err |-> FALSE, steps |-> 0]

NoCell == [project |-> "", ym |-> <<>>,
           month_phase |-> None,
           mm_and_phase |-> [err |-> FALSE, mm |-> 0, phase |-> None],
           mm_phase_employees |-> [err |-> FALSE, mm |-> 0, phase |-> None, employees |-> <<>>]]

NoLoop == [row |-> 1, seg |-> 1, parsed |-> <<>>]

NoGrid == [employees |-> {}, months |-> <<>>, cells |-> <<>>]

NoHist == [op |-> "none", index |-> <<>>, before |-> <<>>, steps |-> 0]

NoFrame == [columns |-> {}, rows |-> <<>>]

NoError == [name |-> "", missing |-> <<>>]

NoKpi == [active_month |-> <<>>, active_count |-> 0, total_projects |-> 0, low_activity |-> 0]

\* the index pandas gives a frame it builds: 0, 1, ..., n - 1
RangeIndex(n) == [i \in 1..n |-> i - 1]

\* the loading block, the session store and the filtered views at rest, for the
\* specifications that start from a record set already in the session
RestIdle ==
    /\ loaded_meta = NoFrame
    /\ loaded_alloc = NoFrame
    /\ error = NoError
    /\ session_keys = {"alloc_data", "meta_data"}
    /\ meta_data = <<>>
    /\ dept = "All"
    /\ capacity_data = <<>>
    /\ alloc_index = RangeIndex(Len(alloc_data))
    /\ kpi = NoKpi

InitCal ==
    /\ pc = "calendar"
    /\ alloc_data = <<>>
    /\ cell = NoCell
    /\ loop = NoLoop
    /\ employee_allocations = <<>>
    /\ conflicts = <<>>
    /\ grid = NoGrid
    /\ hist = NoHist
    /\ RestIdle
    /\ \E t \in ValidTokens \cup MalformedTokens, n \in 0..MaxCount :
           cal = [NoCal EXCEPT !.tok = t, !.prev = t, !.n = n]

\* months = yms(start_ym, months_to_display)
CallYms ==
    /\ pc = "calendar"
    /\ cal.steps < MaxCalOps
    /\ LET r == yms(cal.tok, cal.n)
       IN  cal' = [cal EXCEPT !.op = "yms", !.out = r.out, !.err = r.err,
                              !.prev = cal.tok, !.steps = @ + 1]
    /\ UNCHANGED <<alloc_index, kpi, pc, alloc_data, cell, loop, employee_allocations, conflicts, grid, hist,
                 loaded_meta, loaded_alloc, error, session_keys, meta_data, dept, capacity_data>>

\* new_date of the +1 button for one Date
CallShiftPlus ==
    /\ pc = "calendar"
    /\ cal.steps < MaxCalOps
    /\ LET r == shift_plus(cal.tok)
       IN  cal' = [cal EXCEPT !.op = "plus", !.out = <<>>, !.err = r.err,
                              !.prev = cal.tok, !.tok = r.new_date, !.steps = @ + 1]
    /\ UNCHANGED <<alloc_index, kpi, pc, alloc_data, cell, loop, employee_allocations, conflicts, grid, hist,
                 loaded_meta, loaded_alloc, error, session_keys, meta_data, dept, capacity_data>>

\* new_date of the -1 button for one Date
CallShiftMinus ==
    /\ pc = "calendar"
    /\ cal.steps < MaxCalOps
    /\ LET r == shift_minus(cal.tok)
       IN  cal' = [cal EXCEPT !.op = "minus", !.out = <<>>, !.err = r.err,
                              !.prev = cal.tok, !.tok = r.new_date, !.steps = @ + 1]
    /\ UNCHANGED <<alloc_index, kpi, pc, alloc_data, cell, loop, employee_allocations, conflicts, grid, hist,
                 loaded_meta, loaded_alloc, error, session_keys, meta_data, dept, capacity_data>>

NextCal == CallYms \/ CallShiftPlus \/ CallShiftMinus

SpecCal == InitCal /\ [][NextCal]_vars

(* What the calendar claims speak of, stated without the code's arithmetic. *)

\* a zero-padded YYYY-MM token with month 01..12
IsYM(t) ==
    /\ Len(t) = 7
    /\ t[5] = "-"
    /\ \A i \in {1, 2, 3, 4, 6, 7} : IsDigit(t[i])
    /\ DigitsVal(SubSeq(t, 6, 7)) \in 1..12

YearOf(t) == DigitsVal(SubSeq(t, 1, 4))
MonthOf(t) == DigitsVal(SubSeq(t, 6, 7))

\* b is the calendar month right after a (both zero-padded YYYY-MM)
IsNextMonth(a, b) ==
    /\ IsYM(a) /\ IsYM(b)
    /\ \/ MonthOf(a) < 12 /\ YearOf(b) = YearOf(a) /\ MonthOf(b) = MonthOf(a) + 1
       \/ MonthOf(a) = 12 /\ YearOf(b) = YearOf(a) + 1 /\ MonthOf(b) = 1

YmsContract(start, n, r) ==
    /\ ~r.err
    /\ Len(r.out) = n
    /\ n > 0 => r.out[1] = start
    /\ \A k \in 1..Len(r.out) : IsYM(r.out[k])
    /\ \A k \in 1..(Len(r.out) - 1) : IsNextMonth(r.out[k], r.out[k + 1])

\* C8 as stated: for every valid start token and count n >= 0, yms returns exactly
\* n zero-padded YYYY-MM tokens, the first equal to start, each one calendar month
\* after the previous one.
C8_AsStated ==
    (cal.op = "yms" /\ IsYM(cal.prev)) => YmsContract(cal.prev, cal.n, [err |-> cal.err, out |-> cal.out])

\* the sequence does not run past December 9999
StaysFourDigit(start, n) == (YearOf(start) * 12 + MonthOf(start) - 1) + (n - 1) <= 9999 * 12 + 11

\* C8 amended: the same, for every valid start token and count whose sequence does
\* not run past 9999-12.
C8_YmsSequence ==
    (cal.op = "yms" /\ IsYM(cal.prev) /\ StaysFourDigit(cal.prev, cal.n))
        => YmsContract(cal.prev, cal.n, [err |-> cal.err, out |-> cal.out])

\* a year rollover inside a three-token sequence
C8_Witness ==
    /\ cal.op = "yms" /\ IsYM(cal.prev) /\ cal.n = 3 /\ ~cal.err
    /\ Len(cal.out) = 3
    /\ MonthOf(cal.prev) = 11 /\ YearOf(cal.prev) = 2025
    /\ MonthOf(cal.out[3]) = 1

ShiftContract ==
    /\ cal.op = "plus" => ~cal.err /\ IsNextMonth(cal.prev, cal.tok)
    /\ cal.op = "minus" => ~cal.err /\ IsNextMonth(cal.tok, cal.prev)

\* C9 as stated: for every valid token, +1 gives the next and -1 the previous
\* calendar month, as a zero-padded YYYY-MM token.
C9_AsStated ==
    (cal.op \in {"plus", "minus"} /\ IsYM(cal.prev)) => ShiftContract

\* the shifted month still has a four-digit year: not 9999-12 + 1, not 0000-01 - 1
ShiftStaysFourDigit(t, op) ==
    /\ op = "plus" => ~(YearOf(t) = 9999 /\ MonthOf(t) = 12)
    /\ op = "minus" => ~(YearOf(t) = 0 /\ MonthOf(t) = 1)

\* C9 amended: for every valid token other than 9999-12 the +1 shift returns the
\* next calendar month, and for every valid token other than 0000-01 the -1 shift
\* returns the previous one, as a zero-padded YYYY-MM token.
C9_ShiftOneMonth ==
    (cal.op \in {"plus", "minus"} /\ IsYM(cal.prev) /\ ShiftStaysFourDigit(cal.prev, cal.op))
        => ShiftContract

\* 2025-12 was shifted forward to 2026-01, which was then shifted back to 2025-12
C9_Witness ==
    /\ cal.op = "minus" /\ cal.steps = 2 /\ ~cal.err
    /\ cal.prev = FmtYM(2026, 1)
    /\ cal.tok = FmtYM(2025, 12)

\* C19: yms fails with an error and returns no sequence for every start token that
\* is not a valid YYYY-MM year-month (no '-', non-numeric parts, month outside
\* 01..12), and never returns a sequence whose first token differs from the start
\* token.
C19_MalformedStartFails ==
    cal.op = "yms" =>
        /\ ~IsYM(cal.prev) => (cal.err /\ cal.out = <<>>)
        /\ (~cal.err /\ cal.out # <<>>) => cal.out[1] = cal.prev

----------------------------------------------------------------------------
(* One cell of the heat map and of the timeline: the three helpers asked    *)
(* about the same (project, month) of a record set.                          *)

MaxRows == 3
MaxMM == 3

Projects == {"P1", "P2"}

\* the month the rows of a cell query lie in, and the months asked about
DataMonths == {FmtYM(2025, 3)}

QueryMonths == {FmtYM(2025, 3), FmtYM(2025, 4)}

\* Phase cells: two of the five phases and a missing cell
PhaseCells == {"Design", "Testing", NaN}

RowsOf(projects, dates, phases, mms, annotations) ==
    [Project : projects, Date : dates, Phase : phases, MM : mms, Employees : annotations]

\* df is a frame of at most n rows drawn from rows
FrameOf(df, rows, n) == \E k \in 0..n : df \in [1..k -> rows]

InitPhase ==
    /\ pc = "cell"
    /\ FrameOf(alloc_data, RowsOf(Projects, DataMonths, PhaseCells, 1..MaxMM, {<<>>}), MaxRows)
    /\ cell = NoCell
    /\ loop = NoLoop
    /\ employee_allocations = <<>>
    /\ conflicts = <<>>
    /\ grid = NoGrid
    /\ cal = NoCal
    /\ hist = NoHist
    /\ RestIdle

\* ph = month_phase(alloc, proj, ym) of the heat map, mm, phase, employees =
\* month_mm_phase_employees(alloc, proj, ym) of the timeline, and month_mm_and_phase,
\* for one project and month
RenderCell ==
    /\ pc = "cell"
    /\ \E proj \in Projects, ym \in QueryMonths :
         \E a \in month_phase(alloc_data, proj, ym),
            b \in month_mm_and_phase(alloc_data, proj, ym),
            c \in month_mm_phase_employees(alloc_data, proj, ym) :
              cell' = [project |-> proj, ym |-> ym, month_phase |-> a,
                       mm_and_phase |-> b, mm_phase_employees |-> c]
    /\ pc' = "cell done"
    /\ UNCHANGED <<alloc_index, kpi, alloc_data, loop, employee_allocations, conflicts, grid, cal, hist,
                 loaded_meta, loaded_alloc, error, session_keys, meta_data, dept, capacity_data>>

NextPhase == RenderCell

SpecPhase == InitPhase /\ [][NextPhase]_vars

(* The claims' vocabulary, stated on the rows themselves. *)

CellRows == {i \in 1..Len(alloc_data) :
                alloc_data[i].Project = cell.project /\ alloc_data[i].Date = cell.ym}

RECURSIVE EffortOfPhase(_, _)
\* summed MM of the first n rows that are rows of the cell and carry phase ph
EffortOfPhase(ph, n) ==
    IF n = 0 THEN 0
    ELSE EffortOfPhase(ph, n - 1)
         + (IF n \in CellRows /\ alloc_data[n].Phase = ph THEN alloc_data[n].MM ELSE 0)

CellPhases == {alloc_data[i].Phase : i \in CellRows} \ {NaN}

\* ph is the one phase of the cell with the strictly greatest summed effort
StrictlyDominant(ph) ==
    /\ ph \in CellPhases
    /\ \A other \in CellPhases \ {ph} :
           EffortOfPhase(other, Len(alloc_data)) < EffortOfPhase(ph, Len(alloc_data))

\* C1: when one phase of a (project, month) has the strictly greatest summed effort,
\* month_mm_and_phase and month_mm_phase_employees return that phase with the summed
\* effort of that phase only.
C1_DominantPhaseEffort ==
    pc = "cell done" =>
        \A ph \in CellPhases :
            StrictlyDominant(ph) =>
                /\ ~cell.mm_and_phase.err
                /\ cell.mm_and_phase.phase = ph
                /\ cell.mm_and_phase.mm = EffortOfPhase(ph, Len(alloc_data))
                /\ ~cell.mm_phase_employees.err
                /\ cell.mm_phase_employees.phase = ph
                /\ cell.mm_phase_employees.mm = EffortOfPhase(ph, Len(alloc_data))

\* Design 3 + Testing 2 + Design 1 in one cell: Design wins with 4, the month holds 6
C1_Witness ==
    /\ pc = "cell done"
    /\ Cardinality(CellRows) = 3
    /\ StrictlyDominant("Design")
    /\ \E i \in CellRows : alloc_data[i].Phase = "Testing"
    /\ cell.mm_and_phase.phase = "Design"
    /\ cell.mm_and_phase.mm = 4
    /\ cell.mm_phase_employees.mm = 4

\* one row of the cell has the strictly biggest MM, and every row carries one of
\* the five phases: month_phase has one possible result
OneBiggestRow ==
    /\ \A i \in CellRows : alloc_data[i].Phase \in PHASES
    /\ \E i \in CellRows : \A j \in CellRows \ {i} : alloc_data[j].MM < alloc_data[i].MM

\* C2: the heat map's label (month_phase) is the phase with the greatest summed
\* effort of the (project, month); whenever one phase has the strictly greatest
\* summed effort it is that phase, the one month_mm_and_phase returns, also when
\* that phase's effort is split over several rows.
C2_HeatMapLabelIsDominant ==
    (pc = "cell done" /\ OneBiggestRow) =>
        \A ph \in CellPhases :
            StrictlyDominant(ph) =>
                cell.month_phase = ph /\ cell.month_phase = cell.mm_and_phase.phase

\* the result of the three helpers for a cell without records
IdleResult ==
    /\ cell.month_phase = None
    /\ cell.mm_and_phase = [err |-> FALSE, mm |-> 0, phase |-> None]
    /\ cell.mm_phase_employees = [err |-> FALSE, mm |-> 0, phase |-> None, employees |-> <<>>]

\* C11: for a (project, month) with no matching record the three helpers raise no
\* error and return the idle result: month_phase no phase, month_mm_and_phase
\* effort 0 and no phase, month_mm_phase_employees effort 0, no phase and an empty
\* annotation.
C11_NoRecordIsIdle ==
    (pc = "cell done" /\ CellRows = {}) => IdleResult

\* the record set holds rows of the asked project in another month and rows of
\* another project, and the cell asked about has none
C11_Witness ==
    /\ pc = "cell done"
    /\ CellRows = {}
    /\ \E i \in 1..Len(alloc_data) :
           alloc_data[i].Project = cell.project /\ alloc_data[i].Date # cell.ym
    /\ \E i \in 1..Len(alloc_data) : alloc_data[i].Project # cell.project
    /\ IdleResult

----------------------------------------------------------------------------
(* The dashboard tab on a record set: the extraction loop one segment at a   *)
(* time, then the conflict loop, then the grid.                              *)

MaxEmpRows == 2

EmpMonths == {FmtYM(2024, 12), FmtYM(2025, 1)}

\* st.session_state.start_ym as the sidebar sets it by default
DefaultStartYm == FmtYM(2025, 1)

Seg(name, number) == name \o <<" ", "(">> \o number \o <<")">>

Join2(a, b) == a \o <<",", " ">> \o b

\* Employees cells: missing, empty, well-formed lists, and lists with a segment
\* that lacks a parenthesis or holds no number
Annotations ==
    { NaNText,
      <<>>,
      Seg(<<"A">>, <<"1", ".", "5">>),
      Seg(<<"A">>, <<"2", ".", "5">>),
      Seg(<<"B">>, <<"2">>),
      Join2(Seg(<<"A">>, <<"2">>), Seg(<<"B">>, <<"1", ".", "5">>)),
      Join2(Seg(<<"B">>, <<"2", ".", "5">>), Seg(<<"A">>, <<"4", ".", "5">>)),
      Join2(Seg(<<"A">>, <<"x">>), Seg(<<"B">>, <<"2">>)),
      Join2(Seg(<<"A">>, <<"2">>), Seg(<<"B">>, <<"x">>)),
      Join2(<<"A">>, Seg(<<"B">>, <<"2">>)),
      Join2(<<"A", " ", "(", "2">>, Seg(<<"B">>, <<"1", ".", "5">>)),
      Join2(Join2(Seg(<<"A">>, <<"1", ".", "5">>), <<"z", "z">>), Seg(<<"B">>, <<"2", ".", "5">>)) }

InitEmp ==
    /\ pc = "extract"
    /\ FrameOf(alloc_data, RowsOf(Projects, EmpMonths, {"Design"}, {2}, Annotations), MaxEmpRows)
    /\ cell = NoCell
    /\ loop = [row |-> 1, seg |-> 1, parsed |-> [r \in 1..Len(alloc_data) |-> <<>>]]
    /\ employee_allocations = <<>>
    /\ conflicts = <<>>
    /\ grid = NoGrid
    /\ cal = NoCal
    /\ hist = NoHist
    /\ RestIdle

\* a row whose Employees cell is missing or empty: the if of the loop body fails
SkipRow ==
    /\ pc = "extract"
    /\ loop.row <= Len(alloc_data)
    /\ ~HasAnnotation(alloc_data[loop.row])
    /\ loop' = [loop EXCEPT !.row = @ + 1, !.seg = 1]
    /\ UNCHANGED <<alloc_index, kpi, pc, alloc_data, cell, employee_allocations, conflicts, grid, cal, hist,
                 loaded_meta, loaded_alloc, error, session_keys, meta_data, dept, capacity_data>>

\* one pass of "for emp_part in emp_parts" inside the try of the row: a ValueError
\* of float() leaves the try, so the row's remaining segments are not visited
ExtractSegment ==
    /\ pc = "extract"
    /\ loop.row <= Len(alloc_data)
    /\ HasAnnotation(alloc_data[loop.row])
    /\ LET row == alloc_data[loop.row]
           emp_parts == EmpParts(row)
           emp_part == emp_parts[loop.seg]
           raised == HasParens(emp_part) /\ ~ParsedMM(emp_part).ok
           last == loop.seg = Len(emp_parts)
           name == EmpName(emp_part)
           mm == ParsedMM(emp_part).val2
       IN  /\ IF HasParens(emp_part) /\ ~raised
              THEN /\ employee_allocations' =
                          Accumulate(employee_allocations, name, row.Date, row.Project, mm)
                   /\ loop' = [row |-> IF last THEN loop.row + 1 ELSE loop.row,
                               seg |-> IF last THEN 1 ELSE loop.seg + 1,
                               parsed |-> [loop.parsed EXCEPT ![loop.row] = Append(@, <<name, mm>>)]]
              ELSE /\ employee_allocations' = employee_allocations
                   /\ loop' = [loop EXCEPT !.row = IF raised \/ last THEN @ + 1 ELSE @,
                                           !.seg = IF raised \/ last THEN 1 ELSE @ + 1]
    /\ UNCHANGED <<alloc_index, kpi, pc, alloc_data, cell, conflicts, grid, cal, hist,
                 loaded_meta, loaded_alloc, error, session_keys, meta_data, dept, capacity_data>>

\* "for (emp, date), data in employee_allocations.items()" after the extraction
DetectConflicts ==
    /\ pc = "extract"
    /\ loop.row > Len(alloc_data)
    /\ conflicts' = DetectedConflicts(employee_allocations)
    /\ pc' = "grid"
    /\ UNCHANGED <<alloc_index, kpi, alloc_data, cell, loop, employee_allocations, grid, cal, hist,
                 loaded_meta, loaded_alloc, error, session_keys, meta_data, dept, capacity_data>>

\* the utilization grid: one cell per employee of all_employees and month of
\* all_months = yms(start_ym, 12)
BuildGrid ==
    /\ pc = "grid"
    /\ LET all_months == yms(DefaultStartYm, GridMonths).out
           all_employees == AllEmployees(alloc_data)
           months == {all_months[k] : k \in 1..Len(all_months)}
       IN  grid' = [employees |-> all_employees,
                    months |-> all_months,
                    cells |-> [em \in all_employees \X months |->
                                 LET month_mm == CellMM(employee_allocations, em[1], em[2])
                                 IN  [pct2 |-> Percent2(month_mm),
                                      cell_class |-> CellClass(Percent2(month_mm)),
                                      projects |-> CellProjects(employee_allocations, em[1], em[2])]]]
    /\ pc' = "dashboard done"
    /\ UNCHANGED <<alloc_index, kpi, alloc_data, cell, loop, employee_allocations, conflicts, cal, hist,
                 loaded_meta, loaded_alloc, error, session_keys, meta_data, dept, capacity_data>>

NextEmp == SkipRow \/ ExtractSegment \/ DetectConflicts \/ BuildGrid

SpecEmp == InitEmp /\ [][NextEmp]_vars

(* The claims' vocabulary for annotations, stated on the text itself. *)

\* digits with at most one point and at least one digit
IsNumberText(x) ==
    /\ \A i \in 1..Len(x) : IsDigit(x[i]) \/ x[i] = "."
    /\ Cardinality({i \in 1..Len(x) : x[i] = "."}) <= 1
    /\ \E i \in 1..Len(x) : IsDigit(x[i])

\* twice the value of a number text whose fraction is .0 or .5
NumberText2(x) ==
    LET dot == IF Contains(x, ".") THEN FirstIndex(x, ".") ELSE Len(x) + 1
    IN  2 * DigitsVal(SubSeq(x, 1, dot - 1))
        + (IF dot < Len(x) /\ x[dot + 1] = "5" THEN 1 ELSE 0)

\* the comma-separated segments of an annotation, as written
Segments(text) == Split(text, ",")

\* "Name (number)": one '(' after the name, the number, one closing ')' at the end
WellFormed(segment) ==
    LET t == Strip(segment)
    IN  /\ Cardinality({i \in 1..Len(t) : t[i] = "("}) = 1
        /\ Cardinality({i \in 1..Len(t) : t[i] = ")"}) = 1
        /\ t[Len(t)] = ")"
        /\ IsNumberText(SubSeq(t, FirstIndex(t, "(") + 1, Len(t) - 1))

SegmentName(segment) ==
    LET t == Strip(segment) IN Strip(SubSeq(t, 1, FirstIndex(t, "(") - 1))

SegmentEffort2(segment) ==
    LET t == Strip(segment) IN NumberText2(SubSeq(t, FirstIndex(t, "(") + 1, Len(t) - 1))

ExtractionDone == pc \in {"grid", "dashboard done"}

AnnotatedRows == {r \in 1..Len(alloc_data) : HasAnnotation(alloc_data[r])}

\* the load of (name, date) lists the pair (project, effort)
Contributed(name, date, project, effort2) ==
    \E i \in 1..Len(employee_allocations) :
        /\ employee_allocations[i].key = <<name, date>>
        /\ \E k \in 1..Len(employee_allocations[i].projects) :
               employee_allocations[i].projects[k] = <<project, effort2>>

\* C3: a malformed segment is skipped and aborts nothing: every well-formed segment
\* of every annotation, also one that comes after a malformed segment of the same
\* annotation, contributes its (name, effort) pair to the loads.
C3_MalformedSegmentSkipped ==
    ExtractionDone =>
        \A r \in AnnotatedRows :
            \A j \in 1..Len(Segments(alloc_data[r].Employees)) :
                LET segment == Segments(alloc_data[r].Employees)[j]
                IN  WellFormed(segment) =>
                        Contributed(SegmentName(segment), alloc_data[r].Date,
                                    alloc_data[r].Project, SegmentEffort2(segment))

AllWellFormed(text) == \A j \in 1..Len(Segments(text)) : WellFormed(Segments(text)[j])

\* C4: an annotation made only of well-formed segments parses to exactly one
\* (name, effort) pair per segment, in segment order: the trimmed text before '('
\* and the number between '(' and ')'.
C4_WellFormedAnnotationParsed ==
    ExtractionDone =>
        \A r \in AnnotatedRows :
            AllWellFormed(alloc_data[r].Employees) =>
                loop.parsed[r] =
                    [j \in 1..Len(Segments(alloc_data[r].Employees)) |->
                        <<SegmentName(Segments(alloc_data[r].Employees)[j]),
                          SegmentEffort2(Segments(alloc_data[r].Employees)[j])>>]

\* "A (2), B (1.5)" was parsed to <<A, 2.0>>, <<B, 1.5>>
C4_Witness ==
    /\ ExtractionDone
    /\ \E r \in AnnotatedRows :
          /\ Len(Segments(alloc_data[r].Employees)) = 2
          /\ AllWellFormed(alloc_data[r].Employees)
          /\ loop.parsed[r] = << <<(<<"A">>), 4>>, <<(<<"B">>), 3>> >>

RECURSIVE PairsOf(_, _, _)
\* the (project, effort) pairs parsed for name in month date from the first n rows,
\* in the order of the rows and of their segments
PairsOf(name, date, n) ==
    IF n = 0 THEN <<>>
    ELSE PairsOf(name, date, n - 1) \o
         (IF alloc_data[n].Date = date
          THEN LET mine == SelectSeq(loop.parsed[n], LAMBDA pr : pr[1] = name)
               IN  [k \in 1..Len(mine) |-> <<alloc_data[n].Project, mine[k][2]>>]
          ELSE <<>>)

RECURSIVE SumEfforts(_)
SumEfforts(pairs) == IF pairs = <<>> THEN 0 ELSE pairs[1][2] + SumEfforts(Tail(pairs))

ParsedNames == UNION {{loop.parsed[r][k][1] : k \in 1..Len(loop.parsed[r])} : r \in 1..Len(loop.parsed)}

EntriesOf(name, date) ==
    {i \in 1..Len(employee_allocations) : employee_allocations[i].key = <<name, date>>}

\* C5: after the aggregation, the load of every (name, month) holds the sum of the
\* efforts parsed for that name from all the records of that month, whatever their
\* project, and one (project, effort) pair per parsed pair in the order encountered;
\* a record with an empty or missing annotation contributes nothing.
C5_LoadsAreSumsPerNameAndMonth ==
    ExtractionDone =>
        /\ \A r \in 1..Len(alloc_data) : ~HasAnnotation(alloc_data[r]) => loop.parsed[r] = <<>>
        /\ \A i \in 1..Len(employee_allocations) :
               employee_allocations[i].key[1] \in ParsedNames
        /\ \A name \in ParsedNames, date \in {alloc_data[r].Date : r \in 1..Len(alloc_data)} :
               LET pairs == PairsOf(name, date, Len(alloc_data))
               IN  IF pairs = <<>> THEN EntriesOf(name, date) = {}
                   ELSE /\ Cardinality(EntriesOf(name, date)) = 1
                        /\ \A i \in EntriesOf(name, date) :
                               /\ employee_allocations[i].projects = pairs
                               /\ employee_allocations[i].total_mm = SumEfforts(pairs)

\* A holds 2.0 + 1.5 from two projects in one month and something else in another
C5_Witness ==
    /\ ExtractionDone
    /\ Len(alloc_data) = 2
    /\ alloc_data[1].Project # alloc_data[2].Project
    /\ alloc_data[1].Date = alloc_data[2].Date
    /\ \E i \in 1..Len(employee_allocations) :
          /\ employee_allocations[i].key[1] = <<"A">>
          /\ employee_allocations[i].total_mm = 7
          /\ Len(employee_allocations[i].projects) = 2
          /\ employee_allocations[i].projects[1][1] # employee_allocations[i].projects[2][1]

ConflictsOf(employee, month) ==
    {k \in 1..Len(conflicts) : conflicts[k].employee = employee /\ conflicts[k].month = month}

\* C6: the conflict list holds an entry for an (employee, month) load exactly when
\* its total effort is strictly greater than 4.0 MM (8 half MM); each conflict carries
\* the load's employee, month, total, percent = total / 4.0 * 100 (25 half percents
\* per half MM) and the load's full (project, effort) list.
C6_ConflictIffOverFullTime ==
    ExtractionDone =>
        /\ \A i \in 1..Len(employee_allocations) :
               LET load == employee_allocations[i]
               IN  /\ (ConflictsOf(load.key[1], load.key[2]) # {}) <=> (load.total_mm > 8)
                   /\ \A k \in ConflictsOf(load.key[1], load.key[2]) :
                          /\ conflicts[k].total_mm = load.total_mm
                          /\ conflicts[k].percent2 = 25 * load.total_mm
                          /\ conflicts[k].projects = load.projects
        /\ \A k \in 1..Len(conflicts) :
               EntriesOf(conflicts[k].employee, conflicts[k].month) # {}

\* one load of exactly 4.0 MM without a conflict next to one of 6.5 MM with one
C6_Witness ==
    /\ ExtractionDone
    /\ Len(conflicts) = 1
    /\ conflicts[1].total_mm = 13
    /\ conflicts[1].percent2 = 325
    /\ \E i \in 1..Len(employee_allocations) :
          /\ employee_allocations[i].total_mm = 8
          /\ ConflictsOf(employee_allocations[i].key[1], employee_allocations[i].key[2]) = {}

GridCells == DOMAIN grid.cells

\* C7: for the percent p of every cell of the utilization grid the band is none
\* exactly when p = 0, low when 0 < p < 50, medium when 50 <= p < 75, high when
\* 75 <= p <= 100 and over when p > 100 (p in half percents here).
C7_UtilizationBands ==
    pc = "dashboard done" =>
        \A em \in GridCells :
            LET p2 == grid.cells[em].pct2
                band == grid.cells[em].cell_class
            IN  /\ p2 = Percent2(CellMM(employee_allocations, em[1], em[2]))
                /\ (band = "") <=> (p2 = 0)
                /\ (band = "low") <=> (0 < p2 /\ p2 < 2 * 50)
                /\ (band = "medium") <=> (2 * 50 <= p2 /\ p2 < 2 * 75)
                /\ (band = "high") <=> (2 * 75 <= p2 /\ p2 <= 2 * 100)
                /\ (band = "over") <=> (p2 > 2 * 100)

\* a grid with a cell at exactly 100% (high), one above (over) and one at 0%
C7_Witness ==
    /\ pc = "dashboard done"
    /\ \E em \in GridCells : grid.cells[em].pct2 = 200 /\ grid.cells[em].cell_class = "high"
    /\ \E em \in GridCells : grid.cells[em].pct2 > 200 /\ grid.cells[em].cell_class = "over"
    /\ \E em \in GridCells : grid.cells[em].pct2 = 0 /\ grid.cells[em].cell_class = ""

RECURSIVE EncountersUpTo(_)
\* the (name, month) keys in the order the scan of the first r records met them,
\* one per parsed segment
EncountersUpTo(r) ==
    IF r = 0 THEN <<>>
    ELSE EncountersUpTo(r - 1)
         \o [k \in 1..Len(loop.parsed[r]) |-> <<loop.parsed[r][k][1], alloc_data[r].Date>>]

Encounters == EncountersUpTo(Len(alloc_data))

\* the position at which the scan first met the key (0: never)
FirstMet(key) ==
    IF \E i \in 1..Len(Encounters) : Encounters[i] = key
    THEN CHOOSE i \in 1..Len(Encounters) :
             Encounters[i] = key /\ \A j \in 1..(i - 1) : Encounters[j] # key
    ELSE 0

ConflictKey(k) == <<conflicts[k].employee, conflicts[k].month>>

\* C17: the conflicts are emitted in the order in which their (employee, month) keys
\* were first encountered while scanning the records, which is the order of the load
\* mapping; nothing is sorted, and a key has one conflict at most.
C17_ConflictsInInsertionOrder ==
    ExtractionDone =>
        /\ \A k \in 1..Len(conflicts) : FirstMet(ConflictKey(k)) > 0
        /\ \A i, j \in 1..Len(conflicts) :
               i < j => FirstMet(ConflictKey(i)) < FirstMet(ConflictKey(j))
        /\ \A i, j \in 1..Len(conflicts) :
               i < j => KeyIndex(employee_allocations, ConflictKey(i))
                            < KeyIndex(employee_allocations, ConflictKey(j))

\* two conflicts, B's before A's: B was met first; the names are not in ascending
\* and the loads not in descending order
C17_Witness ==
    /\ ExtractionDone
    /\ Len(conflicts) = 2
    /\ conflicts[1].employee = <<"B">>
    /\ conflicts[2].employee = <<"A">>
    /\ conflicts[1].total_mm < conflicts[2].total_mm
    /\ Encounters[1] = ConflictKey(1)

----------------------------------------------------------------------------
(* The dashboard tab computed again: every widget interaction reruns the      *)
(* script, which starts from conflicts = [] and employee_allocations = {}.   *)
(* hist keeps the mapping of the run before.                                 *)

MaxRerunRows == 2
MaxReruns == 1

RerunTexts ==
    { NaNText,
      Seg(<<"A">>, <<"2", ".", "5">>),
      Join2(Seg(<<"B">>, <<"2", ".", "5">>), Seg(<<"A">>, <<"4", ".", "5">>)),
      Join2(Seg(<<"A">>, <<"x">>), Seg(<<"B">>, <<"2">>)) }

InitRerun ==
    /\ pc = "extract"
    /\ FrameOf(alloc_data, RowsOf(Projects, EmpMonths, {"Design"}, {2}, RerunTexts),
               MaxRerunRows)
    /\ cell = NoCell
    /\ loop = [row |-> 1, seg |-> 1, parsed |-> [r \in 1..Len(alloc_data) |-> <<>>]]
    /\ employee_allocations = <<>>
    /\ conflicts = <<>>
    /\ grid = NoGrid
    /\ cal = NoCal
    /\ hist = NoHist
    /\ RestIdle

\* a rerun that goes on with the mapping of the run before
RerunKeepingLoads ==
    /\ pc = "dashboard done"
    /\ hist.steps < MaxReruns
    /\ hist' = [op |-> "rerun", index |-> <<>>, before |-> employee_allocations,
                steps |-> hist.steps + 1]
    /\ conflicts' = <<>>
    /\ loop' = [row |-> 1, seg |-> 1, parsed |-> [r \in 1..Len(alloc_data) |-> <<>>]]
    /\ grid' = NoGrid
    /\ pc' = "extract"
    /\ UNCHANGED <<alloc_index, kpi, alloc_data, cell, cal, employee_allocations,
                   loaded_meta, loaded_alloc, error, session_keys, meta_data, dept,
                   capacity_data>>

\* the script runs again on the same session data: conflicts = [],
\* employee_allocations = {}, and the loop over alloc.iterrows() starts over
Rerun ==
    /\ pc = "dashboard done"
    /\ hist.steps < MaxReruns
    /\ hist' = [op |-> "rerun", index |-> <<>>, before |-> employee_allocations,
                steps |-> hist.steps + 1]
    /\ conflicts' = <<>>
    /\ employee_allocations' = <<>>
    /\ loop' = [row |-> 1, seg |-> 1, parsed |-> [r \in 1..Len(alloc_data) |-> <<>>]]
    /\ grid' = NoGrid
    /\ pc' = "extract"
    /\ UNCHANGED <<alloc_index, kpi, alloc_data, cell, cal,
                   loaded_meta, loaded_alloc, error, session_keys, meta_data, dept,
                   capacity_data>>

NextRerun == SkipRow \/ ExtractSegment \/ DetectConflicts \/ BuildGrid \/ Rerun

SpecRerun == InitRerun /\ [][NextRerun]_vars

\* C16: computing the employee-month loads again on the unchanged record set
\* gives the mapping of the computation before: the same keys in the same order
\* with the same total_mm and the same projects lists.
C16_RecomputedLoadsIdentical ==
    (ExtractionDone /\ hist.op = "rerun") => employee_allocations = hist.before

\* a second computation over two records that gave two keys, one of them fed by
\* both records
C16_Witness ==
    /\ ExtractionDone
    /\ hist.op = "rerun"
    /\ Len(alloc_data) = 2
    /\ Len(employee_allocations) = 2
    /\ \E i \in 1..2 : Len(employee_allocations[i].projects) = 2
    /\ employee_allocations = hist.before

----------------------------------------------------------------------------
(* The editor on a record set: the table shows the session rows under the    *)
(* filters, as stored (no unsaved cell edits), and a shift button is pressed. *)

MaxEditRows == 3
MaxEdits == 1

\* Date cells: three adjacent months across a year end, a text without '-', and a
\* text that splits into two integers but names no month
EditDates ==
    { FmtYM(2025, 11), FmtYM(2025, 12), FmtYM(2026, 1),
      <<"2", "0", "2", "5">>,
      <<"2", "0", "2", "5", "-", "1", "3">> }

EditPhases == {"Design", "Testing"}

InitEdit ==
    /\ pc = "editor"
    /\ FrameOf(alloc_data, RowsOf(Projects, EditDates, EditPhases, {2}, {<<>>}), MaxEditRows)
    /\ cell = NoCell
    /\ loop = NoLoop
    /\ employee_allocations = <<>>
    /\ conflicts = <<>>
    /\ grid = NoGrid
    /\ cal = NoCal
    /\ hist = NoHist
    /\ RestIdle

\* a shift that writes the whole edited row back with an effort of zero
ShiftSelectedZeroingMM(delta) ==
    /\ pc = "editor"
    /\ hist.steps < MaxEdits
    /\ \E filter_project \in {"All"} \cup Projects,
          filter_phase \in {"All"} \cup EditPhases,
          filter_date \in {<<>>} \cup EditDates :
         LET index == FilteredIndex(alloc_data, filter_project, filter_phase, filter_date)
             shifted == ShiftLoop(alloc_data, alloc_data, index, delta)
         IN  /\ Len(index) > 0
             /\ alloc_data' = [i \in 1..Len(shifted) |->
                                  IF shifted[i].Date # alloc_data[i].Date
                                  THEN [shifted[i] EXCEPT !.MM = 0]
                                  ELSE shifted[i]]
             /\ hist' = [op |-> IF delta = 1 THEN "plus" ELSE "minus", index |-> index,
                         before |-> alloc_data, steps |-> hist.steps + 1]
    /\ UNCHANGED <<alloc_index, kpi, pc, cell, loop, employee_allocations, conflicts, grid, cal,
                   loaded_meta, loaded_alloc, error, session_keys, meta_data, dept,
                   capacity_data>>

\* a shift button with the editor showing filtered_alloc: delta = 1 is
\* "Shift Selected +1 Month", delta = -1 is "Shift Selected -1 Month"
ShiftSelected(delta) ==
    /\ pc = "editor"
    /\ hist.steps < MaxEdits
    /\ \E filter_project \in {"All"} \cup Projects,
          filter_phase \in {"All"} \cup EditPhases,
          filter_date \in {<<>>} \cup EditDates :
         LET index == FilteredIndex(alloc_data, filter_project, filter_phase, filter_date)
         IN  /\ Len(index) > 0
             /\ alloc_data' = ShiftLoop(alloc_data, alloc_data, index, delta)
             /\ hist' = [op |-> IF delta = 1 THEN "plus" ELSE "minus",
                         index |-> index, before |-> alloc_data, steps |-> hist.steps + 1]
    /\ UNCHANGED <<alloc_index, kpi, pc, cell, loop, employee_allocations, conflicts, grid, cal,
                 loaded_meta, loaded_alloc, error, session_keys, meta_data, dept, capacity_data>>

ShiftSelectedPlus == ShiftSelected(1)

ShiftSelectedMinus == ShiftSelected(-1)

NextEdit == ShiftSelectedPlus \/ ShiftSelectedMinus

SpecEdit == InitEdit /\ [][NextEdit]_vars

Shifted == hist.op \in {"plus", "minus"}

SelectedRows == {hist.index[k] : k \in 1..Len(hist.index)}

\* the records a selected row stands for: same Project, Date and Phase before the action
RecordsOfRow(idx) ==
    {i \in 1..Len(hist.before) :
        /\ hist.before[i].Project = hist.before[idx].Project
        /\ hist.before[i].Date = hist.before[idx].Date
        /\ hist.before[i].Phase = hist.before[idx].Phase}

\* C10: in a bulk shift a selected row whose Date is no YYYY-MM token leaves the
\* matching records' dates unmodified and aborts nothing: every selected row with a
\* well-formed Date is still shifted.
C10_MalformedDateRowUntouched ==
    Shifted =>
        \A idx \in SelectedRows :
            /\ ~IsYM(hist.before[idx].Date) =>
                   \A i \in RecordsOfRow(idx) : alloc_data[i].Date = hist.before[i].Date
            /\ IsYM(hist.before[idx].Date) => alloc_data[idx].Date # hist.before[idx].Date

\* the records that correspond to some selected row
SelectedRecords == UNION {RecordsOfRow(idx) : idx \in SelectedRows}

\* C21: after one Shift +1 (resp. -1) over a selection of rows with well-formed
\* dates, every record that corresponds to a selected row has its Date exactly one
\* month later (resp. earlier), never two or more, also when the selection holds
\* rows of one project and phase in adjacent months; every other record keeps its
\* Date.
C21_ShiftMovesOneMonth ==
    (Shifted /\ \A idx \in SelectedRows : IsYM(hist.before[idx].Date)) =>
        /\ Len(alloc_data) = Len(hist.before)
        /\ \A i \in SelectedRecords :
               IF hist.op = "plus"
               THEN IsNextMonth(hist.before[i].Date, alloc_data[i].Date)
               ELSE IsNextMonth(alloc_data[i].Date, hist.before[i].Date)
        /\ \A i \in (1..Len(hist.before)) \ SelectedRecords :
               alloc_data[i].Date = hist.before[i].Date

\* the same for selections in which no two rows of one project and phase lie in
\* adjacent months
NoAdjacentSelected ==
    \A a, b \in SelectedRows :
        (hist.before[a].Project = hist.before[b].Project
            /\ hist.before[a].Phase = hist.before[b].Phase)
        => ~IsNextMonth(hist.before[a].Date, hist.before[b].Date)

ShiftMovesOneMonthApart ==
    (Shifted /\ NoAdjacentSelected /\ \A idx \in SelectedRows : IsYM(hist.before[idx].Date)) =>
        /\ \A i \in SelectedRecords :
               IF hist.op = "plus"
               THEN IsNextMonth(hist.before[i].Date, alloc_data[i].Date)
               ELSE IsNextMonth(alloc_data[i].Date, hist.before[i].Date)
        /\ \A i \in (1..Len(hist.before)) \ SelectedRecords :
               alloc_data[i].Date = hist.before[i].Date

----------------------------------------------------------------------------
(* The timeline's tooltip: month_mm_phase_employees on record sets whose     *)
(* Employees cells differ from row to row and may be missing.                *)

MaxNoteRows == 3
MaxNoteMM == 2

\* Employees cells: a missing cell and two annotations
NoteTexts == {NaNText, Seg(<<"A">>, <<"1">>), Seg(<<"B">>, <<"2">>)}

InitNote ==
    /\ pc = "cell"
    /\ FrameOf(alloc_data,
               RowsOf({"P1"}, DataMonths, {"Design", "Testing"}, 1..MaxNoteMM, NoteTexts),
               MaxNoteRows)
    /\ cell = NoCell
    /\ loop = NoLoop
    /\ employee_allocations = <<>>
    /\ conflicts = <<>>
    /\ grid = NoGrid
    /\ cal = NoCal
    /\ hist = NoHist
    /\ RestIdle

SpecNote == InitNote /\ [][NextPhase]_vars

\* the rows of the cell that carry the phase month_mm_phase_employees returned
WinningRows == {i \in CellRows : alloc_data[i].Phase = cell.mm_phase_employees.phase}

FirstOf(S) == CHOOSE i \in S : \A j \in S : i <= j

\* C12: for a (project, month) with matching records the annotation returned by
\* month_mm_phase_employees is the annotation of the first record, in record
\* order, of the winning phase group (as text: a missing cell reads "nan").
C12_AnnotationOfFirstRecord ==
    (pc = "cell done" /\ CellRows # {} /\ ~cell.mm_phase_employees.err) =>
        cell.mm_phase_employees.employees
            = StrText(alloc_data[FirstOf(WinningRows)].Employees)

\* the same when the first record of the winning group has an Employees cell
C12_FirstPresentAnnotation ==
    (/\ pc = "cell done" /\ CellRows # {} /\ ~cell.mm_phase_employees.err
     /\ alloc_data[FirstOf(WinningRows)].Employees # NaNText) =>
        cell.mm_phase_employees.employees = alloc_data[FirstOf(WinningRows)].Employees

----------------------------------------------------------------------------
(* The department filter and the capacity planning section of the dashboard *)
(* tab. A Streamlit widget change reruns the script: selecting a department *)
(* is followed by a new rendering of the capacity view.                     *)

\* 'available': 40
Available == 40

\* all_months[:6]
MonthsShown == 6

\* ["All"] + sorted(meta["Department"].unique().tolist()), as a set
dept_opts(meta_rows) == {"All"} \cup {meta_rows[i].Department : i \in 1..Len(meta_rows)}

\* meta[meta["Department"] == dept] if dept != "All" else meta
meta_view(meta_rows, department) ==
    IF department # "All"
    THEN SelectSeq(meta_rows, LAMBDA r : r.Department = department)
    ELSE meta_rows

\* the rows of the month whose project is in the filtered meta view
MonthRowsInView(df, month) ==
    {i \in 1..Len(df) :
        /\ df[i].Date = month
        /\ \E k \in 1..Len(meta_view(meta_data, dept)) :
               meta_view(meta_data, dept)[k].Project = df[i].Project}

\* alloc[alloc['Date'] == month], as row positions
MonthRows(df, month) == {i \in 1..Len(df) : df[i].Date = month}

\* alloc[alloc['Date'] == month]['MM'].sum()
month_total(df, month) == SumOver([i \in 1..Len(df) |-> df[i].MM], MonthRows(df, month))

\* (data['total_mm'] / data['available']) * 100, in half percents
CapacityPct2(total_mm, available) == (total_mm * 100 * 2) \div available

Green == "#047857"
Amber == "#b45309"
Red == "#b91c1c"

\* the demand bar coloured with the cut-points of the per-employee grid
DemandColorEmployeeBands(pct2) ==
    IF pct2 < 100 THEN Green ELSE IF pct2 < 150 THEN Amber ELSE Red

\* color_class of the 'Total Demand' row: the text colour of the bar
DemandColor(pct2) ==
    IF pct2 < 140 THEN Green ELSE IF pct2 < 180 THEN Amber ELSE Red

\* color of the 'Available' row
AvailableColor(pct2) ==
    IF pct2 < 140 THEN Green ELSE IF pct2 < 180 THEN Amber ELSE Red

MaxCapRows == 2

\* months of the rows: the first and the last month shown
CapMonths == {FmtYM(2025, 1), FmtYM(2025, 6)}

\* MM of the rows: 27 and 27 + 1 of 40 lie on either side of 70 %, 35 and 35 + 1
\* of 90 %
CapMMs == {1, 27, 35}

\* two projects of two departments
CapMeta ==
    << [Project |-> "P1", Department |-> "DIGITAL", Total_MM |-> 20],
       [Project |-> "P2", Department |-> "PMO", Total_MM |-> 8] >>

InitCap ==
    /\ pc = "filter"
    /\ FrameOf(alloc_data, RowsOf(Projects, CapMonths, {"Design", NaN}, CapMMs, {<<>>}),
               MaxCapRows)
    /\ meta_data = CapMeta
    /\ dept = "All"
    /\ capacity_data = <<>>
    /\ alloc_index = RangeIndex(Len(alloc_data))
    /\ kpi = NoKpi
    /\ loaded_meta = NoFrame
    /\ loaded_alloc = NoFrame
    /\ error = NoError
    /\ session_keys = {"alloc_data", "meta_data"}
    /\ cell = NoCell
    /\ loop = NoLoop
    /\ employee_allocations = <<>>
    /\ conflicts = <<>>
    /\ grid = NoGrid
    /\ cal = NoCal
    /\ hist = NoHist

\* dept = st.selectbox("Select Department", dept_opts): the script runs again
SelectDepartment ==
    /\ pc \in {"filter", "capacity done"}
    /\ \E d \in dept_opts(meta_data) : dept' = d
    /\ pc' = "capacity"
    /\ UNCHANGED <<alloc_index, kpi, alloc_data, cell, loop, employee_allocations, conflicts, grid, cal, hist,
                   loaded_meta, loaded_alloc, error, session_keys, meta_data, capacity_data>>

\* capacity_data for all_months[:6] and the colours of its two rows
RenderCapacity ==
    /\ pc = "capacity"
    /\ LET all_months == yms(DefaultStartYm, GridMonths).out
       IN  capacity_data' =
               [k \in 1..MonthsShown |->
                   LET total == month_total(alloc_data, all_months[k])
                   IN  [month |-> all_months[k],
                        total_mm |-> total,
                        available |-> Available,
                        color_class |-> DemandColor(CapacityPct2(total, Available)),
                        color |-> AvailableColor(CapacityPct2(total, Available))]]
    /\ pc' = "capacity done"
    /\ UNCHANGED <<alloc_index, kpi, alloc_data, cell, loop, employee_allocations, conflicts, grid, cal, hist,
                   loaded_meta, loaded_alloc, error, session_keys, meta_data, dept>>

NextCap == SelectDepartment \/ RenderCapacity

SpecCap == InitCap /\ [][NextCap]_vars

(* The claims' vocabulary, stated on the rows themselves. *)

RECURSIVE EffortOfMonth(_, _)
\* summed MM of the first n records that lie in the month
EffortOfMonth(month, n) ==
    IF n = 0 THEN 0
    ELSE EffortOfMonth(month, n - 1)
         + (IF alloc_data[n].Date = month THEN alloc_data[n].MM ELSE 0)

CapacityShown == capacity_data # <<>>

\* every month shown carries the summed effort of all records of that month
DemandIsMonthSum ==
    CapacityShown =>
        \A k \in 1..Len(capacity_data) :
            capacity_data[k].total_mm
                = EffortOfMonth(capacity_data[k].month, Len(alloc_data))

\* C13: the monthly demand shown for a month is the sum of effort over all
\* allocation records of that month, whatever their project, phase or department,
\* and rendering again under another department filter leaves every month's
\* demand as it was.
C13_DemandIgnoresDepartment ==
    /\ []DemandIsMonthSum
    /\ [][CapacityShown => capacity_data' = capacity_data]_vars

\* PMO is selected and January's demand 28 sums a DIGITAL record with a phase and
\* a PMO record without one
C13_Witness ==
    /\ pc = "capacity done"
    /\ dept = "PMO"
    /\ Len(alloc_data) = 2
    /\ alloc_data[1].Project = "P1" /\ alloc_data[1].Phase = "Design"
    /\ alloc_data[2].Project = "P2" /\ alloc_data[2].Phase = NaN
    /\ alloc_data[1].Date = FmtYM(2025, 1) /\ alloc_data[2].Date = FmtYM(2025, 1)
    /\ capacity_data[1].total_mm = 28
    /\ capacity_data[6].total_mm = 0

\* the band names of the capacity view, by the colour that shows them
Comfortable == Green
Tight == Amber
Overloaded == Red

\* demand / 40 * 100 < p, for the demand of the records of a month
PercentBelow(month, p) == EffortOfMonth(month, Len(alloc_data)) * 100 < p * 40

\* C20: for every month shown in the capacity view, with percent = demand / 40 * 100,
\* the band is comfortable exactly when percent < 70, tight exactly when
\* 70 <= percent < 90 and overloaded exactly when percent >= 90, and the demand bar
\* and the 'Available' row of the month carry the same band.
C20_CapacityBands ==
    CapacityShown =>
        \A k \in 1..Len(capacity_data) :
            LET e == capacity_data[k]
            IN  /\ e.available = 40
                /\ (e.color_class = Comfortable) <=> PercentBelow(e.month, 70)
                /\ (e.color_class = Tight) <=>
                       (~PercentBelow(e.month, 70) /\ PercentBelow(e.month, 90))
                /\ (e.color_class = Overloaded) <=> ~PercentBelow(e.month, 90)
                /\ e.color = e.color_class

\* January holds 28 of 40 MM, exactly 70 %: tight on both rows; June holds nothing
C20_Witness ==
    /\ pc = "capacity done"
    /\ capacity_data[1].total_mm = 28
    /\ capacity_data[1].color_class = Tight
    /\ capacity_data[1].color = Tight
    /\ capacity_data[6].total_mm = 0
    /\ capacity_data[6].color_class = Comfortable

----------------------------------------------------------------------------
(* The loading block at the top of the script: load_data_sources, the        *)
(* column checks, st.error and st.stop, then the session store and the      *)
(* views. A frame is its set of columns and its rows; a row has one field   *)
(* per column.                                                               *)

MetaRequired == <<"Project", "Department", "Total_MM">>

AllocRequired == <<"Project", "Date", "Phase", "MM">>

\* a check that lists only the first column found missing
ensure_columns_first_only(df, required, name) ==
    LET missing == SelectSeq(required, LAMBDA c : c \notin df.columns)
    IN  [raised |-> missing # <<>>,
         error |-> [name |-> name,
                    missing |-> IF missing = <<>> THEN <<>> ELSE <<missing[1]>>]]

\* ensure_columns: the ValueError, if any, carries the frame's name and the
\* missing columns in the order of required (the text joins them with ", ")
ensure_columns(df, required, name) ==
    LET missing == SelectSeq(required, LAMBDA c : c \notin df.columns)
    IN  [raised |-> missing # <<>>, error |-> [name |-> name, missing |-> missing]]

\* a row cut down to the columns of its frame
Restrict(row, columns) == [c \in columns |-> row[c]]

\* alloc["Employees"] = "" on a frame without that column
WithEmployees(df) ==
    IF "Employees" \notin df.columns
    THEN [columns |-> df.columns \cup {"Employees"},
          rows |-> [i \in 1..Len(df.rows) |->
                       [c \in df.columns \cup {"Employees"} |->
                           IF c = "Employees" THEN <<>> ELSE df.rows[i][c]]]]
    ELSE df

\* the rows of the two sources when every column is there
SourceMeta == CapMeta

SourceAlloc ==
    << [Project |-> "P1", Date |-> FmtYM(2025, 1), Phase |-> "Design", MM |-> 27,
        Employees |-> Seg(<<"A">>, <<"1">>)],
       [Project |-> "P2", Date |-> FmtYM(2025, 1), Phase |-> "Testing", MM |-> 1,
        Employees |-> Seg(<<"B">>, <<"2">>)] >>

\* a source read with only some of its columns
FrameWith(rows, columns) ==
    [columns |-> columns, rows |-> [i \in 1..Len(rows) |-> Restrict(rows[i], columns)]]

MetaColumns == {"Project", "Department", "Total_MM"}

AllocColumns == {"Project", "Date", "Phase", "MM", "Employees"}

InitLoad ==
    /\ pc = "load"
    /\ alloc_data = <<>>
    /\ meta_data = <<>>
    /\ session_keys = {}
    /\ loaded_meta = NoFrame
    /\ loaded_alloc = NoFrame
    /\ error = NoError
    /\ dept = "All"
    /\ capacity_data = <<>>
    /\ alloc_index = <<>>
    /\ kpi = NoKpi
    /\ cell = NoCell
    /\ loop = NoLoop
    /\ employee_allocations = <<>>
    /\ conflicts = <<>>
    /\ grid = NoGrid
    /\ cal = NoCal
    /\ hist = NoHist

\* meta, alloc, gsheets_conn = load_data_sources(...): frames with any of the columns
LoadSources ==
    /\ pc = "load"
    /\ \E mc \in SUBSET MetaColumns, ac \in SUBSET AllocColumns :
           /\ loaded_meta' = FrameWith(SourceMeta, mc)
           /\ loaded_alloc' = FrameWith(SourceAlloc, ac)
    /\ pc' = "check"
    /\ UNCHANGED <<alloc_index, kpi, alloc_data, cell, loop, employee_allocations, conflicts, grid, cal, hist,
                   error, session_keys, meta_data, dept, capacity_data>>

\* the rest of the try block and its except: the two column checks with the
\* Employees column added in between; an exception is shown and st.stop() ends the run
CheckColumns ==
    /\ pc = "check"
    /\ LET m == ensure_columns(loaded_meta, MetaRequired, "Meta dataframe")
           filled == WithEmployees(loaded_alloc)
           a == ensure_columns(filled, AllocRequired, "Allocations dataframe")
       IN  IF m.raised
           THEN /\ error' = m.error
                /\ pc' = "stopped"
                /\ UNCHANGED loaded_alloc
           ELSE /\ loaded_alloc' = filled
                /\ IF a.raised
                   THEN error' = a.error /\ pc' = "stopped"
                   ELSE error' = NoError /\ pc' = "loaded"
    /\ UNCHANGED <<alloc_index, kpi, alloc_data, cell, loop, employee_allocations, conflicts, grid, cal, hist,
                   loaded_meta, session_keys, meta_data, dept, capacity_data>>

\* a store that takes the loader's frames in every run
StoreSessionAlways ==
    /\ pc = "loaded"
    /\ alloc_data' = loaded_alloc.rows
    /\ alloc_index' = RangeIndex(Len(loaded_alloc.rows))
    /\ meta_data' = loaded_meta.rows
    /\ session_keys' = session_keys \cup {"alloc_data", "meta_data"}
    /\ pc' = "filter"
    /\ UNCHANGED <<kpi, cell, loop, employee_allocations, conflicts, grid, cal, hist,
                   loaded_meta, loaded_alloc, error, dept, capacity_data>>

\* if "alloc_data" not in st.session_state: ... = alloc.copy(), the same for meta_data
StoreSession ==
    /\ pc = "loaded"
    /\ alloc_data' = IF "alloc_data" \notin session_keys THEN loaded_alloc.rows ELSE alloc_data
    /\ alloc_index' = IF "alloc_data" \notin session_keys
                      THEN RangeIndex(Len(loaded_alloc.rows))
                      ELSE alloc_index
    /\ meta_data' = IF "meta_data" \notin session_keys THEN loaded_meta.rows ELSE meta_data
    /\ session_keys' = session_keys \cup {"alloc_data", "meta_data"}
    /\ pc' = "filter"
    /\ UNCHANGED <<kpi, cell, loop, employee_allocations, conflicts, grid, cal, hist,
                   loaded_meta, loaded_alloc, error, dept, capacity_data>>

NextLoad == LoadSources \/ CheckColumns \/ StoreSession \/ SelectDepartment \/ RenderCapacity

SpecLoad == InitLoad /\ [][NextLoad]_vars

(* The claims' vocabulary. *)

\* the required columns a frame lacks
Lacking(df, required) == {required[i] : i \in 1..Len(required)} \ df.columns

\* the columns an error names
Named(e) == {e.missing[i] : i \in 1..Len(e.missing)}

\* the error is about one of the two sets, which lacks a column, and names every
\* required column that set lacks (Meta is checked first and is the set reported
\* when both lack columns)
NamesAllMissing(e, meta_df, alloc_df) ==
    \/ /\ e.name = "Meta dataframe"
       /\ Lacking(meta_df, MetaRequired) # {}
       /\ Named(e) = Lacking(meta_df, MetaRequired)
    \/ /\ e.name = "Allocations dataframe"
       /\ Lacking(alloc_df, AllocRequired) # {}
       /\ Named(e) = Lacking(alloc_df, AllocRequired)

\* the frame after the check has an Employees column, added with empty annotations
\* if the frame read had none, and is otherwise the frame read
EmployeesFilled(before, after) ==
    /\ after.columns = before.columns \cup {"Employees"}
    /\ Len(after.rows) = Len(before.rows)
    /\ \A i \in 1..Len(after.rows) :
           /\ \A c \in before.columns : after.rows[i][c] = before.rows[i][c]
           /\ "Employees" \notin before.columns => after.rows[i].Employees = <<>>

\* what the column checks do to the frames just read
CheckOutcome ==
    pc = "check" =>
        IF Lacking(loaded_meta, MetaRequired) # {} \/ Lacking(loaded_alloc, AllocRequired) # {}
        THEN /\ pc' = "stopped"
             /\ NamesAllMissing(error', loaded_meta, loaded_alloc)
        ELSE /\ pc' = "loaded"
             /\ error' = NoError
             /\ EmployeesFilled(loaded_alloc, loaded_alloc')

\* a stopped run has stored nothing in the session and computed no view
NothingComputed ==
    /\ session_keys = {}
    /\ alloc_data = <<>>
    /\ meta_data = <<>>
    /\ capacity_data = <<>>

----------------------------------------------------------------------------
(* The heat map cell and the timeline bar of one (project, month), on record *)
(* sets whose Phase cells may be missing or carry a label outside PHASES.    *)

MaxLabelRows == 2
MaxLabelMM == 2

\* Phase cells: one of the five phases, a label that is none of them, a missing cell
LabelCells == {"Design", "Review", NaN}

\* str.lower() on the labels the model uses (None has no lower())
Lower(label) ==
    CASE label = "Planning" -> "planning"
      [] label = "Design" -> "design"
      [] label = "Development" -> "development"
      [] label = "Testing" -> "testing"
      [] label = "Delivery" -> "delivery"
      [] label = "Review" -> "review"
      [] label = "nan" -> "nan"
      [] OTHER -> label

\* the CSS classes of the five phases
PhaseClass(lowered) ==
    CASE lowered = "planning" -> "plan"
      [] lowered = "design" -> "design"
      [] lowered = "development" -> "dev"
      [] lowered = "testing" -> "test"
      [] lowered = "delivery" -> "deliv"
      [] OTHER -> "idle"

\* cell_html(phase): the class of the heat map cell
cell_html(phase) ==
    IF phase = None \/ phase = "" \/ Lower(phase) = "idle" THEN "idle"
    ELSE PhaseClass(Lower(phase))

\* the timeline bar of a month: "IndexError" when the helper raised, "" for the
\* empty month-bar, else the class of the bar, "plan" for every label the dict lacks
bar_cls(result) ==
    IF result.err THEN "IndexError"
    ELSE IF result.mm <= 0 \/ result.phase = None \/ result.phase = "" THEN ""
    ELSE IF PhaseClass(Lower(result.phase)) = "idle" THEN "plan"
    ELSE PhaseClass(Lower(result.phase))

InitLabel ==
    /\ pc = "cell"
    /\ FrameOf(alloc_data, RowsOf(Projects, DataMonths, LabelCells, 1..MaxLabelMM, {<<>>}),
               MaxLabelRows)
    /\ cell = NoCell
    /\ loop = NoLoop
    /\ employee_allocations = <<>>
    /\ conflicts = <<>>
    /\ grid = NoGrid
    /\ cal = NoCal
    /\ hist = NoHist
    /\ RestIdle

\* one project and month in both tabs: cell_html(month_phase(...)) of the heat map
\* and the bar built from month_mm_phase_employees(...) in the timeline
RenderViews ==
    /\ pc = "cell"
    /\ \E proj \in Projects, ym \in QueryMonths :
         \E a \in month_phase(alloc_data, proj, ym),
            b \in month_mm_and_phase(alloc_data, proj, ym),
            c \in month_mm_phase_employees(alloc_data, proj, ym) :
              cell' = [project |-> proj, ym |-> ym, month_phase |-> a,
                       mm_and_phase |-> b, mm_phase_employees |-> c,
                       heat |-> cell_html(a), bar |-> bar_cls(c)]
    /\ pc' = "cell done"
    /\ UNCHANGED <<alloc_index, kpi, alloc_data, loop, employee_allocations, conflicts, grid, cal, hist,
                   loaded_meta, loaded_alloc, error, session_keys, meta_data, dept,
                   capacity_data>>

NextLabel == RenderViews

SpecLabel == InitLabel /\ [][NextLabel]_vars

\* every record of the cell has a missing Phase or a label outside the five
NoPhaseRecordsOnly ==
    /\ CellRows # {}
    /\ \A i \in CellRows : alloc_data[i].Phase \notin PHASES

\* C15: a (project, month) whose matching records all carry an absent or
\* unrecognized phase is reported and displayed as phase-less/idle by the heat
\* map and by the timeline alike: the heat map cell is Idle, the timeline reports
\* no phase without raising and draws the empty bar, never a bar in the class of
\* one of the five phases.
C15_NoPhaseShownIdle ==
    (pc = "cell done" /\ NoPhaseRecordsOnly) =>
        /\ cell.heat = "idle"
        /\ ~cell.mm_phase_employees.err
        /\ cell.mm_phase_employees.phase = None
        /\ cell.bar = ""

\* the heat map's half of the above
HeatMapShowsIdle ==
    (pc = "cell done" /\ NoPhaseRecordsOnly) => cell.heat = "idle"

----------------------------------------------------------------------------
(* A session: script runs one after another. Each run loads the sources      *)
(* again (the files and the sheet may have changed), stores them only under  *)
(* keys the session lacks, and ends in the editor or the views, where the    *)
(* next user action starts the next run.                                     *)

\* what load_data_sources may return in a run: two contents per source
SessionAllocs ==
    { << [Project |-> "P1", Date |-> FmtYM(2025, 11), Phase |-> "Design", MM |-> 2,
          Employees |-> <<>>],
         [Project |-> "P2", Date |-> FmtYM(2025, 12), Phase |-> "Testing", MM |-> 2,
          Employees |-> <<>>] >>,
      << [Project |-> "P1", Date |-> FmtYM(2026, 1), Phase |-> "Design", MM |-> 2,
          Employees |-> <<>>] >> }

SessionMetas ==
    { CapMeta, << [Project |-> "P1", Department |-> "PMO", Total_MM |-> 5] >> }

MaxSaves == 2

\* a row added in the editor
AddedRow ==
    [Project |-> "P2", Date |-> FmtYM(2025, 11), Phase |-> "Testing", MM |-> 1,
     Employees |-> <<>>]

\* edited_alloc for the rows the editor shows: untouched, a row deleted, a row added
EditedTables(filtered_alloc) ==
    {filtered_alloc, filtered_alloc \o <<AddedRow>>}
        \cup (IF filtered_alloc = <<>> THEN {} ELSE {Tail(filtered_alloc)})

\* the rows of data under the index labels
RowsAt(data, index) == [k \in 1..Len(index) |-> data[index[k]]]

\* the mask of Save Changes: a row the active filters select
SaveMask(row, filter_project, filter_phase, filter_date) ==
    /\ filter_project # "All" => row.Project = filter_project
    /\ filter_phase # "All" => row.Phase = filter_phase
    /\ filter_date # <<>> => row.Date = filter_date

\* st.session_state.alloc_data after Save Changes
SaveResult(data, filter_project, filter_phase, filter_date, edited_alloc) ==
    IF filter_project # "All" \/ filter_phase # "All" \/ filter_date # <<>>
    THEN SelectSeq(data, LAMBDA row : ~SaveMask(row, filter_project, filter_phase, filter_date))
             \o edited_alloc
    ELSE edited_alloc

\* meta, alloc, gsheets_conn = load_data_sources(...) with whatever the sources hold now
LoadAnySource ==
    /\ pc = "load"
    /\ \E ms \in SessionMetas, as \in SessionAllocs :
           /\ loaded_meta' = FrameWith(ms, MetaColumns)
           /\ loaded_alloc' = FrameWith(as, AllocColumns)
    /\ pc' = "check"
    /\ UNCHANGED <<alloc_index, kpi, alloc_data, cell, loop, employee_allocations, conflicts, grid, cal, hist,
                   error, session_keys, meta_data, dept, capacity_data>>

\* the "Edit Allocations" button: the editor is shown
OpenEditor ==
    /\ pc = "filter"
    /\ pc' = "editor"
    /\ UNCHANGED <<alloc_index, kpi, alloc_data, cell, loop, employee_allocations, conflicts, grid, cal, hist,
                   loaded_meta, loaded_alloc, error, session_keys, meta_data, dept,
                   capacity_data>>

\* any other widget (file upload, start month, focus month, ...): the script runs again
RerunScript ==
    /\ pc \in {"filter", "editor"}
    /\ pc' = "load"
    /\ UNCHANGED <<alloc_index, kpi, alloc_data, cell, loop, employee_allocations, conflicts, grid, cal, hist,
                   loaded_meta, loaded_alloc, error, session_keys, meta_data, dept,
                   capacity_data>>

\* the index labels of edited_alloc: st.data_editor keeps the labels of the rows it
\* was given, drops the label of a deleted row and gives an added row the next label
EditedLabels(labels, filtered_alloc, edited_alloc) ==
    IF Len(edited_alloc) = Len(filtered_alloc) THEN labels
    ELSE IF Len(edited_alloc) < Len(filtered_alloc) THEN Tail(labels)
    ELSE labels \o << IF labels = <<>> THEN 0 ELSE labels[Len(labels)] + 1 >>

\* mask = pd.Series([True] * len(data)) carries the labels 0..len-1 and keeps them
\* through the &= with a column of data; data[~mask] is looked up by label and
\* raises an IndexingError when data has a label the mask lacks
MaskUnalignable(labels) ==
    \E k \in 1..Len(labels) : labels[k] \notin {RangeIndex(Len(labels))[j] : j \in 1..Len(labels)}

\* "Save Changes" and its st.rerun(); a save whose mask cannot be aligned raises
\* before anything is stored, and the next script run starts from the session as
\* it was
SaveChanges ==
    /\ pc = "editor"
    /\ hist.steps < MaxSaves
    /\ \E filter_project \in {"All"} \cup Projects,
          filter_phase \in {"All"} \cup EditPhases,
          filter_date \in {<<>>} \cup EditDates :
         LET index == FilteredIndex(alloc_data, filter_project, filter_phase, filter_date)
             filtered == filter_project # "All" \/ filter_phase # "All" \/ filter_date # <<>>
             raised == filtered /\ MaskUnalignable(alloc_index)
         IN  \E edited_alloc \in EditedTables(RowsAt(alloc_data, index)) :
                 /\ alloc_data' = IF raised THEN alloc_data
                                   ELSE SaveResult(alloc_data, filter_project, filter_phase,
                                                   filter_date, edited_alloc)
                 /\ alloc_index' = IF raised THEN alloc_index
                                    ELSE IF filtered THEN RangeIndex(Len(alloc_data'))
                                    ELSE EditedLabels(alloc_index, alloc_data, edited_alloc)
                 /\ hist' = [op |-> "save", index |-> index, before |-> alloc_data,
                             steps |-> hist.steps + 1,
                             filter_project |-> filter_project, filter_phase |-> filter_phase,
                             filter_date |-> filter_date, edited_alloc |-> edited_alloc,
                             raised |-> raised]
    /\ pc' = "load"
    /\ UNCHANGED <<kpi, cell, loop, employee_allocations, conflicts, grid, cal,
                   loaded_meta, loaded_alloc, error, session_keys, meta_data, dept,
                   capacity_data>>

\* "Reload from Sheets": both keys are deleted and st.rerun() starts the next run
ReloadFromSheets ==
    /\ pc \in {"filter", "editor"}
    /\ session_keys' = session_keys \ {"alloc_data", "meta_data"}
    /\ alloc_data' = <<>>
    /\ alloc_index' = <<>>
    /\ meta_data' = <<>>
    /\ hist' = [op |-> "reload", index |-> <<>>, before |-> alloc_data, steps |-> hist.steps]
    /\ pc' = "load"
    /\ UNCHANGED <<kpi, cell, loop, employee_allocations, conflicts, grid, cal,
                   loaded_meta, loaded_alloc, error, dept, capacity_data>>

NextSession ==
    \/ LoadAnySource \/ CheckColumns \/ StoreSession
    \/ OpenEditor \/ RerunScript
    \/ SaveChanges \/ ShiftSelectedPlus \/ ShiftSelectedMinus
    \/ ReloadFromSheets

SpecSession == InitLoad /\ [][NextSession]_vars

(* The claims' vocabulary. *)

SessionDataChanges == alloc_data' # alloc_data \/ meta_data' # meta_data

\* a step of Save, Shift +1 or Shift -1: it edits alloc_data only
UserEditStep ==
    /\ hist'.steps = hist.steps + 1
    /\ hist'.op \in {"save", "plus", "minus"}
    /\ meta_data' = meta_data
    /\ session_keys' = session_keys

\* the step of 'Reload from Sheets' that deletes both record sets
ReloadDeleteStep ==
    /\ hist'.op = "reload"
    /\ {"alloc_data", "meta_data"} \cap session_keys # {}
    /\ {"alloc_data", "meta_data"} \cap session_keys' = {}

\* the store of a run: a record set the session has stays, one it lacks is taken
\* from the loader
StoreStep ==
    /\ pc = "loaded"
    /\ alloc_data' = IF "alloc_data" \in session_keys THEN alloc_data ELSE loaded_alloc.rows
    /\ meta_data' = IF "meta_data" \in session_keys THEN meta_data ELSE loaded_meta.rows

\* C18: once alloc_data and meta_data are stored in the session, later runs never
\* replace them, whatever the loader returns; the two record sets change only by
\* Save, Shift +1 or Shift -1, by the deletion of 'Reload from Sheets', or by the
\* store of a run for a key the session lacks.
C18_SessionDataLoadedOnce ==
    [][SessionDataChanges => (UserEditStep \/ ReloadDeleteStep \/ StoreStep)]_vars

\* a later run loaded other contents for both sources and the session kept its own,
\* with no user edit so far
C18_Witness ==
    /\ pc = "filter"
    /\ hist = NoHist
    /\ session_keys = {"alloc_data", "meta_data"}
    /\ alloc_data # <<>>
    /\ loaded_alloc.rows # alloc_data
    /\ loaded_meta.rows # meta_data

\* a step of Shift +1 or Shift -1
ShiftStep ==
    /\ hist'.steps = hist.steps + 1
    /\ hist'.op \in {"plus", "minus"}

\* C23: a bulk Shift +1 or Shift -1 changes only the Date field: the number of
\* records of the session set and every record's Project, Phase, MM and Employees
\* are as before the action, and the project metadata is as before.
C23_ShiftChangesOnlyDate ==
    [][ShiftStep =>
          /\ Len(alloc_data') = Len(alloc_data)
          /\ \A i \in 1..Len(alloc_data) :
                 /\ alloc_data'[i].Project = alloc_data[i].Project
                 /\ alloc_data'[i].Phase = alloc_data[i].Phase
                 /\ alloc_data'[i].MM = alloc_data[i].MM
                 /\ alloc_data'[i].Employees = alloc_data[i].Employees
          /\ meta_data' = meta_data]_vars

\* a shift has moved a record of a session that holds project metadata
C23_Witness ==
    /\ hist.op \in {"plus", "minus"}
    /\ meta_data # <<>>
    /\ Len(alloc_data) = Len(hist.before)
    /\ \E i \in 1..Len(alloc_data) : alloc_data[i].Date # hist.before[i].Date

\* the last action was Save Changes
Saved == hist.op = "save"

FilterActive ==
    hist.filter_project # "All" \/ hist.filter_phase # "All" \/ hist.filter_date # <<>>

\* the record matches the filter the save was made under
MatchesFilter(row) ==
    /\ hist.filter_project # "All" => row.Project = hist.filter_project
    /\ hist.filter_phase # "All" => row.Phase = hist.filter_phase
    /\ hist.filter_date # <<>> => row.Date = hist.filter_date

\* the previous records outside the filter, unchanged and in their order, followed
\* by the rows of the edited table; the rows of the edited table with no filter
SavedAsEdited ==
    alloc_data = IF FilterActive
                 THEN SelectSeq(hist.before, LAMBDA row : ~MatchesFilter(row))
                          \o hist.edited_alloc
                 ELSE hist.edited_alloc

\* C22: after Save Changes with a project, phase and/or date filter active the
\* session record set is the previous records that do not match the filter,
\* unchanged and in their previous order, followed by the rows of the edited
\* table; with no filter active it is the rows of the edited table.
C22_SaveMergesEditedRows == Saved => SavedAsEdited

\* the same for the saves that ran to their end: a save with no filter, and a
\* filtered save over a session set whose index labels are 0..n-1
SaveThatRanMergesEditedRows == (Saved /\ ~hist.raised) => SavedAsEdited

\* a filtered save that changed the table ran to its end
SaveThatRanSeen ==
    /\ Saved /\ ~hist.raised /\ FilterActive
    /\ hist.edited_alloc # RowsAt(hist.before, hist.index)
    /\ Len(alloc_data) > Len(hist.edited_alloc)

----------------------------------------------------------------------------
(* The calendar sequence next to the bulk shift.                             *)

\* a step of the +1 button on a valid token
PlusStep == cal'.op = "plus" /\ cal'.steps = cal.steps + 1 /\ IsYM(cal.tok)

\* a step of the -1 button on the token the +1 button has just written for a valid
\* token
MinusAfterPlusStep ==
    /\ cal.op = "plus" /\ IsYM(cal.prev)
    /\ cal'.op = "minus" /\ cal'.steps = cal.steps + 1

\* C27: the calendar sequence and the bulk shift agree on the next month: for every
\* valid token t the token Shift +1 writes is the second element of yms(t, 2), and
\* Shift -1 applied to that token gives back t, across year boundaries too.
C27_ShiftAgreesWithCalendar ==
    [][/\ PlusStep => (~cal'.err /\ cal'.tok = yms(cal.tok, 2).out[2])
       /\ MinusAfterPlusStep => (~cal'.err /\ cal'.tok = cal.prev)]_vars

\* December 2025 was shifted to January 2026 and back
C27_Witness ==
    /\ cal.op = "minus"
    /\ cal.steps = 2
    /\ cal.prev = FmtYM(2026, 1)
    /\ cal.tok = FmtYM(2025, 12)

----------------------------------------------------------------------------
(* The KPI counters of the dashboard header, computed in every script run   *)
(* from the session's record sets, the department filter and the focus      *)
(* month.                                                                    *)

\* Series.nunique(): the number of distinct values, missing ones not counted
nunique(values) == Cardinality(values \ {NaN})

\* the rows of the focus month, whatever their project
ActiveRowsAnyProject(df, view, active_month) ==
    {i \in 1..Len(df) : df[i].Date = active_month}

\* alloc[(alloc["Date"] == active_month) & (alloc["Project"].isin(meta_view["Project"]))],
\* as row positions
ActiveRows(df, view, active_month) ==
    {i \in 1..Len(df) :
        /\ df[i].Date = active_month
        /\ \E k \in 1..Len(view) : view[k].Project = df[i].Project}

\* active_count, total_projects and low_activity
Kpis(df, view, active_month) ==
    LET active == ActiveRows(df, view, active_month)
        active_count == nunique({df[i].Project : i \in active})
        total_projects == nunique({view[k].Project : k \in 1..Len(view)})
    IN  [active_month |-> active_month,
         active_count |-> active_count,
         total_projects |-> total_projects,
         low_activity |-> total_projects - active_count]

MaxKpiRows == 3

KpiMonths == {FmtYM(2025, 1), FmtYM(2025, 2)}

\* P3 is a project the metadata does not know
KpiProjects == Projects \cup {"P3", NaN}

\* metadata with two departments, with one project on two rows, with a missing
\* project name, and with no project at all
KpiMetas ==
    { CapMeta,
      CapMeta \o << [Project |-> "P1", Department |-> "PMO", Total_MM |-> 3] >>,
      << [Project |-> "P1", Department |-> "PMO", Total_MM |-> 5],
         [Project |-> NaN, Department |-> "PMO", Total_MM |-> 1] >>,
      <<>> }

InitKpi ==
    /\ pc = "filter"
    /\ FrameOf(alloc_data, RowsOf(KpiProjects, KpiMonths, {"Design"}, {1}, {<<>>}), MaxKpiRows)
    /\ meta_data \in KpiMetas
    /\ cell = NoCell
    /\ loop = NoLoop
    /\ employee_allocations = <<>>
    /\ conflicts = <<>>
    /\ grid = NoGrid
    /\ cal = NoCal
    /\ hist = NoHist
    /\ loaded_meta = NoFrame
    /\ loaded_alloc = NoFrame
    /\ error = NoError
    /\ session_keys = {"alloc_data", "meta_data"}
    /\ dept = "All"
    /\ capacity_data = <<>>
    /\ alloc_index = RangeIndex(Len(alloc_data))
    /\ kpi = NoKpi

\* the KPI block of a run, for the focus month picked in the sidebar
ComputeKpis ==
    /\ pc = "capacity"
    /\ \E focus_month \in KpiMonths :
           kpi' = Kpis(alloc_data, meta_view(meta_data, dept), focus_month)
    /\ pc' = "kpi done"
    /\ UNCHANGED <<alloc_data, cell, loop, employee_allocations, conflicts, grid, cal, hist,
                   loaded_meta, loaded_alloc, error, session_keys, meta_data, dept,
                   capacity_data, alloc_index>>

NextKpi == SelectDepartment \/ ComputeKpis

SpecKpi == InitKpi /\ [][NextKpi]_vars

(* The claims' vocabulary. *)

KpisShown == pc = "kpi done"

\* the projects of the filtered metadata view
ViewProjects ==
    {meta_data[k].Project : k \in {j \in 1..Len(meta_data) :
                                     dept = "All" \/ meta_data[j].Department = dept}} \ {NaN}

\* the project has an allocation record in the focus month
HasRecordInFocusMonth(p) ==
    \E i \in 1..Len(alloc_data) :
        alloc_data[i].Project = p /\ alloc_data[i].Date = kpi.active_month

\* C24: for every record set, focus month and department filter the KPI counters
\* satisfy 0 <= active_count <= total_projects and active_count + low_activity =
\* total_projects, and active_count counts exactly the projects of the filtered
\* metadata view that have an allocation record in the focus month.
C24_KpiCounters ==
    KpisShown =>
        /\ 0 <= kpi.active_count
        /\ kpi.active_count <= kpi.total_projects
        /\ kpi.active_count + kpi.low_activity = kpi.total_projects
        /\ kpi.total_projects = Cardinality(ViewProjects)
        /\ kpi.active_count = Cardinality({p \in ViewProjects : HasRecordInFocusMonth(p)})

\* the focus month holds records of a project of the view, of a project of another
\* department and of a project unknown to the metadata
C24_Witness ==
    /\ KpisShown
    /\ dept = "PMO"
    /\ kpi.active_count = 1
    /\ kpi.total_projects = 1
    /\ \E i \in 1..Len(alloc_data) :
           alloc_data[i].Project = "P3" /\ alloc_data[i].Date = kpi.active_month
    /\ \E i \in 1..Len(alloc_data) :
           alloc_data[i].Project = "P1" /\ alloc_data[i].Date = kpi.active_month
    /\ \E i \in 1..Len(alloc_data) :
           alloc_data[i].Project = "P2" /\ alloc_data[i].Date = kpi.active_month

----------------------------------------------------------------------------
(* The conflict list next to the utilization grid, on annotations that hold *)
(* numbers, the text nan, an unclosed parenthesis and no number.             *)

MaxGridRows == 2

GridTexts ==
    { NaNText,
      Seg(<<"A">>, <<"2", ".", "5">>),
      Join2(Seg(<<"B">>, <<"2", ".", "5">>), Seg(<<"A">>, <<"4", ".", "5">>)),
      Seg(<<"A">>, <<"n", "a", "n">>),
      <<"C", " ", "(", "2">>,
      Join2(Seg(<<"A">>, <<"x">>), Seg(<<"B">>, <<"2">>)) }

InitGrid ==
    /\ pc = "extract"
    /\ FrameOf(alloc_data, RowsOf(Projects, EmpMonths, {"Design"}, {2}, GridTexts), MaxGridRows)
    /\ cell = NoCell
    /\ loop = [row |-> 1, seg |-> 1, parsed |-> [r \in 1..Len(alloc_data) |-> <<>>]]
    /\ employee_allocations = <<>>
    /\ conflicts = <<>>
    /\ grid = NoGrid
    /\ cal = NoCal
    /\ hist = NoHist
    /\ RestIdle

NextGrid == SkipRow \/ ExtractSegment \/ DetectConflicts \/ BuildGrid

SpecGrid == InitGrid /\ [][NextGrid]_vars

(* The claims' vocabulary. *)

GridShown == pc = "dashboard done"

DisplayedMonths == {grid.months[k] : k \in 1..Len(grid.months)}

\* the cell of (employee, month) is in band "over" exactly when the conflict list
\* holds an entry for (employee, month)
CellAgrees(em) ==
    (grid.cells[em].cell_class = "over") <=> (ConflictsOf(em[1], em[2]) # {})

\* the conflict of a displayed month is shown as an "over" cell
ConflictShown(k) ==
    conflicts[k].month \in DisplayedMonths =>
        /\ <<conflicts[k].employee, conflicts[k].month>> \in GridCells
        /\ grid.cells[<<conflicts[k].employee, conflicts[k].month>>].cell_class = "over"

\* C25: the conflict list and the utilization grid agree: for every employee and
\* every month displayed in the grid the cell is in band "over" if and only if the
\* conflict list holds an entry for that (employee, month), and every conflict whose
\* month is displayed appears as an "over" cell.
C25_GridAgreesWithConflicts ==
    GridShown =>
        /\ \A em \in GridCells : CellAgrees(em)
        /\ \A k \in 1..Len(conflicts) : ConflictShown(k)

\* the same for the cells whose load is a number
GridAgreesOnNumericLoads ==
    GridShown =>
        /\ \A em \in GridCells : grid.cells[em].pct2 # FloatNaN => CellAgrees(em)
        /\ \A k \in 1..Len(conflicts) : ConflictShown(k)

\* a displayed conflict next to a conflict of a month the grid does not display
NumericAgreementSeen ==
    /\ GridShown
    /\ \E k \in 1..Len(conflicts) : conflicts[k].month \in DisplayedMonths
    /\ \E k \in 1..Len(conflicts) : conflicts[k].month \notin DisplayedMonths

RECURSIVE FloatSumEfforts(_)
\* the float sum of the efforts of a list of (project, effort) pairs, from 0
FloatSumEfforts(pairs) ==
    IF pairs = <<>> THEN 0
    ELSE FloatAdd(FloatSumEfforts(SubSeq(pairs, 1, Len(pairs) - 1)), pairs[Len(pairs)][2])

\* C26: at every point of the extraction, for every record set, with malformed
\* annotations too, the total effort of each (employee, month) load is the sum of
\* the efforts of its contributing projects, and that list is not empty: no key is
\* created without a contribution.
C26_LoadIsSumOfContributions ==
    \A i \in 1..Len(employee_allocations) :
        /\ employee_allocations[i].projects # <<>>
        /\ employee_allocations[i].total_mm = FloatSumEfforts(employee_allocations[i].projects)

\* the extraction has passed a record whose annotation raised at its first segment,
\* which created no key, and a record that gave A 4.5 MM and B 2.5 MM
C26_Witness ==
    /\ pc = "extract"
    /\ Len(alloc_data) = 2
    /\ alloc_data[1].Employees = Join2(Seg(<<"A">>, <<"x">>), Seg(<<"B">>, <<"2">>))
    /\ loop.row > 2
    /\ Len(employee_allocations) = 2
    /\ \E i \in 1..Len(employee_allocations) :
           /\ employee_allocations[i].key[1] = <<"A">>
           /\ employee_allocations[i].total_mm = 9
           /\ Len(employee_allocations[i].projects) = 1

\* the bands of C7 for the cells whose percent is a number
BandsOfNumericPercents ==
    GridShown =>
        \A em \in GridCells :
            LET p2 == grid.cells[em].pct2
                band == grid.cells[em].cell_class
            IN  p2 # FloatNaN =>
                    /\ (band = "") <=> (p2 = 0)
                    /\ (band = "low") <=> (0 < p2 /\ p2 < 2 * 50)
                    /\ (band = "medium") <=> (2 * 50 <= p2 /\ p2 < 2 * 75)
                    /\ (band = "high") <=> (2 * 75 <= p2 /\ p2 <= 2 * 100)
                    /\ (band = "over") <=> (p2 > 2 * 100)

====
